---- MODULE Spec2Model ----
(***************************************************************************)
(* obfsclient: the obfs2 client session (src/schwanenlied/pt/obfs2client.cc,*)
(* both the SOCKS4-era Obfs2Client and the SOCKS5-era obfs2::Client), the  *)
(* padding length sampler gen_padlen, and main.cc's transport start-up and *)
(* SIGINT staged shutdown.                                                 *)
(*                                                                         *)
(* Three specifications share the variables:                               *)
(*   Spec      one obfs2 session, from outgoing connect to teardown        *)
(*   SpecPad   Obfs2Client::gen_padlen, one loop iteration per step        *)
(*   SpecMain  main(): init_pt x 3, the event loop and the SIGINT callback *)
(***************************************************************************)
EXTENDS Integers, Sequences, FiniteSets, TLC

(***************************************************************************)
(* Program constants                                                       *)
(***************************************************************************)
kSeedLength == 16
kMaxPadding == 8192
\* 0x2BF5CA7E
kMagicValue == 737528446
\* sizeof(uint32_t) * 2: the MAGIC | PADLEN header
kHdrLength == 8
\* crypto::Sha256::kDigestLength
kDigestLength == 32
\* the mask of gen_padlen, 0x2fff
kPadMask == 12287

(***************************************************************************)
(* Bounds of the model                                                     *)
(***************************************************************************)
\* gen_padlen's draws range over every value of the low LoBits bits
LoBits == 14
\* I/O events (read events on either endpoint) delivered to one session
MaxEvents == 4
\* live sessions per SOCKS5 listener in SpecMain
MaxSessions == 1

(***************************************************************************)
(* 32-bit words.  TLC's integers are 32-bit signed, so a uint32_t that may *)
(* have bit 31 set is the pair <<high 16 bits, low 16 bits>>.              *)
(***************************************************************************)
RECURSIVE BitAnd(_, _)
BitAnd(a, b) ==
  IF a = 0 \/ b = 0 THEN 0
  ELSE (a % 2) * (b % 2) + 2 * BitAnd(a \div 2, b \div 2)

RECURSIVE Pow2(_)
Pow2(n) == IF n = 0 THEN 1 ELSE 2 * Pow2(n - 1)

U32(hi, lo) == <<hi, lo>>
U32OfNat(n) == <<n \div 65536, n % 65536>>
U32And(x, y) == <<BitAnd(x[1], y[1]), BitAnd(x[2], y[2])>>
U32Gt(x, n) == x[1] > n \div 65536 \/ (x[1] = n \div 65536 /\ x[2] > n % 65536)
U32Lt(x, n) == x[1] < n \div 65536 \/ (x[1] = n \div 65536 /\ x[2] < n % 65536)
\* defined for words below 2^31 only
U32ToNat(x) == x[1] * 65536 + x[2]

(***************************************************************************)
(* htonl / ntohl on a little-endian host: a host word and the four bytes   *)
(* it occupies on the wire, most significant first.                        *)
(***************************************************************************)
htonl(x) == <<x[1] \div 256, x[1] % 256, x[2] \div 256, x[2] % 256>>
ntohl(b) == <<b[1] * 256 + b[2], b[3] * 256 + b[4]>>

(***************************************************************************)
(* State                                                                   *)
(***************************************************************************)
VARIABLES
  \* --- Obfs2Client::gen_padlen (SpecPad)
  gp_pc,          \* "loop" | "assert" | "returned" | "aborted"
  gp_rnd,         \* the word the next evutil_secure_rng_get_bytes stores
  gp_ret,         \* the local uint32_t ret (a 32-bit word)
  \* --- main() (SpecMain)
  m_pc,           \* main's position
  requested,      \* the methods allium_ptcfg_method_requested answers 1 for
  ev_base,        \* the global event_base: "null" or "base"
  host_log,       \* the calls made on the allium PT configuration, in order
  factories,      \* ::std::list of Socks5Factory
  listeners,      \* ::std::list of Socks5Server
  heap,           \* factories and listeners allocated and not yet deleted
  dispatch_loop,  \* the local bool of main
  sigint_installed, \* the SIGINT event was added to ev_base
  nr_sigints,     \* the global counter of the SIGINT callback
  loop,           \* "idle" | "running" | "exited": event_base_dispatch
  srv,            \* per listener: accepting flag, live sessions, call counts
  sig_log,        \* per delivered SIGINT, the calls its callback made
  exit_code,      \* main's return value, "none" while running
  \* --- one obfs2 session (Spec)
  impl,           \* "Obfs2Client" (SOCKS4 era) or "Client" (obfs2::Client)
  proc,           \* "running", or "aborted" once an SL_ASSERT has fired
  state_,         \* Session::state_
  connected,      \* on_outgoing_connected has been invoked
  init_seed_,     \* INIT_SEED
  resp_seed_,     \* RESP_SEED
  initiator_aes_, \* AES-CTR-128 context: key, IV, bytes processed since keyed
  responder_aes_,
  received_seed_hdr_,
  resp_pad_len_,
  out_wr,         \* what was written to outgoing_ (towards the bridge), in order
  inc_wr,         \* what was written to incoming_ (towards the SOCKS client)
  peer,           \* the peer's handshake: seed and the header it encrypts
  out_rcvd,       \* bytes of the peer's stream received into outgoing_'s input
  out_rd,         \* bytes of it removed or drained from that buffer so far
  inc_rcvd,       \* bytes of client payload received into incoming_'s input
  inc_rd,         \* bytes of it moved out of that buffer so far
  close_calls,    \* calls of server_.close_session(this) / delete this
  nevents,        \* read events delivered so far
  last,           \* the last callback: its name, return value, failed step
  \* --- mac and kdf_obfs2 called on their own (SpecKdf)
  kdf_pc,         \* "idle" | "ready" | "mac_done" | "kdf_done"
  mac_in,         \* mac's arguments: key, buf, digest.size()
  mac_out,        \* what mac returned and left in digest
  kdf_out         \* the seeds kdf_obfs2 ran on, the ciphers and value it left

padVars == <<gp_pc, gp_rnd, gp_ret>>
mainVars == <<m_pc, requested, ev_base, host_log, factories, listeners, heap,
              dispatch_loop, sigint_installed, nr_sigints, loop, srv, sig_log,
              exit_code>>
sessVars == <<impl, proc, state_, connected, init_seed_, resp_seed_,
              initiator_aes_, responder_aes_, received_seed_hdr_, resp_pad_len_,
              out_wr, inc_wr, peer, out_rcvd, out_rd, inc_rcvd, inc_rd,
              close_calls, nevents, last>>
kdfVars == <<kdf_pc, mac_in, mac_out, kdf_out>>
vars == <<padVars, mainVars, sessVars, kdfVars>>

(***************************************************************************)
(* SL_ASSERT(cond): the macro lives in schwanenlied/common.h.  A build     *)
(* with assertions aborts on a false condition; a build without them       *)
(* carries on.  Both builds are outcomes.                                  *)
(***************************************************************************)
SL_ASSERT(cond) == IF cond THEN {"pass"} ELSE {"abort", "pass"}

(***************************************************************************)
(* Obfs2Client::gen_padlen                                                 *)
(***************************************************************************)
\* the 32-bit values evutil_secure_rng_get_bytes may store into ret: every
\* value of the low LoBits bits, with the high half all zeros or all ones
RngWords == {U32(hi, lo) : hi \in {0, 65535}, lo \in 0 .. (Pow2(LoBits) - 1)}

\* ret &= 0x2fff
gen_padlen_mask(r) == U32And(r, U32OfNat(kPadMask))

\* faulty variant: the loop lets everything the mask lets through pass
gen_padlen_retry_never(ret) == U32Gt(ret, kPadMask)

\* while (ret > kMaxPadding)
gen_padlen_retry(ret) == U32Gt(ret, kMaxPadding)

\* SL_ASSERT(ret < kMaxPadding)
gen_padlen_assert(ret) == SL_ASSERT(U32Lt(ret, kMaxPadding))

\* the values gen_padlen can hand to its caller given the draws in R
gen_padlen(R) ==
  {U32ToNat(gen_padlen_mask(r)) : r \in
     {q \in R : /\ ~gen_padlen_retry(gen_padlen_mask(q))
                /\ "pass" \in gen_padlen_assert(gen_padlen_mask(q))}}

\* the words the next calls of evutil_secure_rng_get_bytes store after a retry
RetryWords == {U32(0, 0), U32(0, 4095), U32(0, kMaxPadding), U32(65535, 65535)}

\* one iteration of the do { } while: ret is filled with gp_rnd and masked
GenPadlenDraw ==
  /\ gp_pc = "loop"
  /\ gp_ret' = gen_padlen_mask(gp_rnd)
  /\ IF gen_padlen_retry(gen_padlen_mask(gp_rnd))
     THEN /\ gp_pc' = "loop"
          /\ gp_rnd' \in RetryWords
     ELSE /\ gp_pc' = "assert"
          /\ UNCHANGED gp_rnd
  /\ UNCHANGED <<mainVars, sessVars, kdfVars>>

\* SL_ASSERT(ret < kMaxPadding); return ret;
GenPadlenReturn ==
  /\ gp_pc = "assert"
  /\ \E o \in gen_padlen_assert(gp_ret) :
       gp_pc' = IF o = "pass" THEN "returned" ELSE "aborted"
  /\ UNCHANGED <<gp_ret, gp_rnd>>
  /\ UNCHANGED <<mainVars, sessVars, kdfVars>>

PadNext == GenPadlenDraw \/ GenPadlenReturn

(***************************************************************************)
(* main.cc: init_pt, main and the SIGINT callback                          *)
(***************************************************************************)
kObfs3MethodName == "obfs3"
kObfs2MethodName == "obfs2"
kScrambleSuitMethodName == "scramblesuit"
Methods == {kObfs3MethodName, kObfs2MethodName, kScrambleSuitMethodName}

SessionIds == 1 .. MaxSessions

\* Socks5Server as main.cc sees it: the accept handler installed by bind(),
\* the set of live sessions, and how often close() / close_sessions() ran
NoServer == [accepting |-> FALSE, sessions |-> {},
             n_close |-> 0, n_close_sessions |-> 0]

\* Socks5Server::close(): stop accepting, keep the live sessions
Socks5Server_close(sv) ==
  [sv EXCEPT !.accepting = FALSE, !.n_close = @ + 1]

\* Socks5Server::close_sessions(): tear down every live session
Socks5Server_close_sessions(sv) ==
  [sv EXCEPT !.sessions = {}, !.n_close_sessions = @ + 1]

\* Socks5Server::close_session(s): destroy one session; idempotent
Socks5Server_close_session(sv, s) ==
  [sv EXCEPT !.sessions = @ \ {s}]

\* faulty variant: the listener is entered in its list before addr() is
\* asked, and stays there when addr() fails
init_pt_keeps_listener(name, st, base_ok, bind_ok, addr_ok) ==
  IF name \notin st.requested
  THEN [st EXCEPT !.ret = FALSE]
  ELSE IF st.ev_base = "null" /\ ~base_ok
  THEN [st EXCEPT !.ret = FALSE,
                  !.host_log = Append(@, <<"method_error", name, "event_base_new()">>)]
  ELSE IF ~bind_ok
  THEN [st EXCEPT !.ret = FALSE,
                  !.ev_base = "base",
                  !.host_log = Append(@, <<"method_error", name, "Socks5::bind()">>)]
  ELSE IF ~addr_ok
  THEN [st EXCEPT !.ret = FALSE,
                  !.ev_base = "base",
                  !.listeners = Append(@, name),
                  !.heap = @ \cup {<<"listener", name>>},
                  !.host_log = Append(@, <<"method_error", name, "Socks5::addr()">>)]
  ELSE [st EXCEPT !.ret = TRUE,
                  !.ev_base = "base",
                  !.factories = Append(@, name),
                  !.listeners = Append(@, name),
                  !.heap = @ \cup {<<"factory", name>>, <<"listener", name>>},
                  !.srv = [@ EXCEPT ![name] = [NoServer EXCEPT !.accepting = TRUE]],
                  !.host_log = Append(@, <<"cmethod_report", name>>)]

\* faulty variant: a failing Socks5Server::addr() is not reported
init_pt_quiet_addr(name, st, base_ok, bind_ok, addr_ok) ==
  IF name \notin st.requested
  THEN [st EXCEPT !.ret = FALSE]
  ELSE IF st.ev_base = "null" /\ ~base_ok
  THEN [st EXCEPT !.ret = FALSE,
                  !.host_log = Append(@, <<"method_error", name, "event_base_new()">>)]
  ELSE IF ~bind_ok
  THEN [st EXCEPT !.ret = FALSE,
                  !.ev_base = "base",
                  !.host_log = Append(@, <<"method_error", name, "Socks5::bind()">>)]
  ELSE IF ~addr_ok
  THEN [st EXCEPT !.ret = FALSE, !.ev_base = "base"]
  ELSE [st EXCEPT !.ret = TRUE,
                  !.ev_base = "base",
                  !.factories = Append(@, name),
                  !.listeners = Append(@, name),
                  !.heap = @ \cup {<<"factory", name>>, <<"listener", name>>},
                  !.srv = [@ EXCEPT ![name] = [NoServer EXCEPT !.accepting = TRUE]],
                  !.host_log = Append(@, <<"cmethod_report", name>>)]

\* init_pt<Factory>(cfg, state_dir, name, factories, listeners, scrub_addrs).
\* base_ok, bind_ok, addr_ok: whether event_base_new(), Socks5Server::bind()
\* and Socks5Server::addr() succeed.  The result is the state init_pt leaves.
init_pt(name, st, base_ok, bind_ok, addr_ok) ==
  IF name \notin st.requested
  THEN [st EXCEPT !.ret = FALSE]
  ELSE IF st.ev_base = "null" /\ ~base_ok
  THEN [st EXCEPT !.ret = FALSE,
                  !.host_log = Append(@, <<"method_error", name, "event_base_new()">>)]
  ELSE IF ~bind_ok
  THEN [st EXCEPT !.ret = FALSE,
                  !.ev_base = "base",
                  !.host_log = Append(@, <<"method_error", name, "Socks5::bind()">>)]
  ELSE IF ~addr_ok
  THEN [st EXCEPT !.ret = FALSE,
                  !.ev_base = "base",
                  !.host_log = Append(@, <<"method_error", name, "Socks5::addr()">>)]
  ELSE [st EXCEPT !.ret = TRUE,
                  !.ev_base = "base",
                  !.factories = Append(@, name),
                  !.listeners = Append(@, name),
                  !.heap = @ \cup {<<"factory", name>>, <<"listener", name>>},
                  !.srv = [@ EXCEPT ![name] = [NoServer EXCEPT !.accepting = TRUE]],
                  !.host_log = Append(@, <<"cmethod_report", name>>)]

\* faulty variant: case 2 breaks the loop before it closes the sessions
sigint_cb_loopbreak_first(n, servers) ==
  LET closes == [i \in 1 .. Len(servers) |-> <<"close", servers[i]>>]
      close_all == [i \in 1 .. Len(servers) |-> <<"close_sessions", servers[i]>>]
  IN  CASE n = 1 -> closes
        [] n = 2 -> << <<"event_base_loopbreak">> >> \o close_all
        [] OTHER -> << <<"event_base_loopbreak">> >>

\* faulty variant: case 2 ends in a break
sigint_cb_break(n, servers) ==
  LET closes == [i \in 1 .. Len(servers) |-> <<"close", servers[i]>>]
      close_all == [i \in 1 .. Len(servers) |-> <<"close_sessions", servers[i]>>]
  IN  CASE n = 1 -> closes
        [] n = 2 -> close_all
        [] OTHER -> << <<"event_base_loopbreak">> >>

\* faulty variant: case 1 has no break
sigint_cb_nobreak(n, servers) ==
  LET closes == [i \in 1 .. Len(servers) |-> <<"close", servers[i]>>]
      close_all == [i \in 1 .. Len(servers) |-> <<"close_sessions", servers[i]>>]
  IN  CASE n = 1 -> closes \o close_all \o << <<"event_base_loopbreak">> >>
        [] n = 2 -> close_all \o << <<"event_base_loopbreak">> >>
        [] OTHER -> << <<"event_base_loopbreak">> >>

\* the calls the SIGINT callback makes when nr_sigints has just become n
sigint_cb(n, servers) ==
  LET closes == [i \in 1 .. Len(servers) |-> <<"close", servers[i]>>]
      close_all == [i \in 1 .. Len(servers) |-> <<"close_sessions", servers[i]>>]
  IN  CASE n = 1 -> closes
        [] n = 2 -> close_all \o << <<"event_base_loopbreak">> >>
        [] OTHER -> << <<"event_base_loopbreak">> >>

\* the effect of a list of such calls on the servers and on the loop
RECURSIVE ApplyCalls(_, _)
ApplyCalls(calls, st) ==
  IF calls = <<>> THEN st
  ELSE LET c == Head(calls)
           nx == CASE c[1] = "close" ->
                        [st EXCEPT !.srv[c[2]] = Socks5Server_close(@)]
                   [] c[1] = "close_sessions" ->
                        [st EXCEPT !.srv[c[2]] = Socks5Server_close_sessions(@)]
                   [] OTHER -> [st EXCEPT !.brk = TRUE]
       IN  ApplyCalls(Tail(calls), nx)

\* faulty variant: dispatch_loop = dispatch_loop || init_pt<...>(...), which
\* does not call init_pt once an earlier transport is up
MainInitPt_short_circuit(pc, name, next_pc) ==
  /\ m_pc = pc
  /\ \E base_ok, bind_ok, addr_ok \in BOOLEAN :
       LET st == [requested |-> requested, ev_base |-> ev_base,
                  host_log |-> host_log, factories |-> factories,
                  listeners |-> listeners, heap |-> heap, srv |-> srv,
                  ret |-> FALSE]
           r == IF dispatch_loop THEN st
                ELSE init_pt(name, st, base_ok, bind_ok, addr_ok)
       IN  /\ ev_base' = r.ev_base
           /\ host_log' = r.host_log
           /\ factories' = r.factories
           /\ listeners' = r.listeners
           /\ heap' = r.heap
           /\ srv' = r.srv
           /\ dispatch_loop' = (dispatch_loop \/ r.ret)
  /\ m_pc' = next_pc
  /\ UNCHANGED <<requested, sigint_installed, nr_sigints, loop, sig_log, exit_code>>
  /\ UNCHANGED <<padVars, sessVars, kdfVars>>

\* dispatch_loop |= init_pt<...>(cfg, state_dir, name, factories, listeners, ...)
MainInitPt(pc, name, next_pc) ==
  /\ m_pc = pc
  /\ \E base_ok, bind_ok, addr_ok \in BOOLEAN :
       LET st == [requested |-> requested, ev_base |-> ev_base,
                  host_log |-> host_log, factories |-> factories,
                  listeners |-> listeners, heap |-> heap, srv |-> srv,
                  ret |-> FALSE]
           r == init_pt(name, st, base_ok, bind_ok, addr_ok)
       IN  /\ ev_base' = r.ev_base
           /\ host_log' = r.host_log
           /\ factories' = r.factories
           /\ listeners' = r.listeners
           /\ heap' = r.heap
           /\ srv' = r.srv
           /\ dispatch_loop' = (dispatch_loop \/ r.ret)
  /\ m_pc' = next_pc
  /\ UNCHANGED <<requested, sigint_installed, nr_sigints, loop, sig_log, exit_code>>
  /\ UNCHANGED <<padVars, sessVars, kdfVars>>

InitObfs3 == MainInitPt("init_obfs3", kObfs3MethodName, "init_obfs2")
InitObfs2 == MainInitPt("init_obfs2", kObfs2MethodName, "init_scramblesuit")
InitScrambleSuit ==
  MainInitPt("init_scramblesuit", kScrambleSuitMethodName, "methods_done")

\* allium_ptcfg_methods_done(cfg); allium_ptcfg_free(cfg);
MethodsDone ==
  /\ m_pc = "methods_done"
  /\ host_log' = host_log \o << <<"methods_done">>, <<"free">> >>
  /\ m_pc' = "assert"
  /\ UNCHANGED <<requested, ev_base, factories, listeners, heap, dispatch_loop,
                 sigint_installed, nr_sigints, loop, srv, sig_log, exit_code>>
  /\ UNCHANGED <<padVars, sessVars, kdfVars>>

\* SL_ASSERT(factories.size() == listeners.size()); then install the SIGINT
\* handler and run event_base_dispatch, or log and return 0
StartLoop ==
  /\ m_pc = "assert"
  /\ \E o \in SL_ASSERT(Len(factories) = Len(listeners)) :
       IF o = "abort"
       THEN /\ m_pc' = "aborted"
            /\ UNCHANGED <<sigint_installed, loop, exit_code>>
       ELSE IF dispatch_loop
       THEN /\ m_pc' = "dispatch"
            /\ sigint_installed' = TRUE
            /\ loop' = "running"
            /\ UNCHANGED exit_code
       ELSE /\ m_pc' = "exit"
            /\ exit_code' = 0
            /\ UNCHANGED <<sigint_installed, loop>>
  /\ UNCHANGED <<requested, ev_base, host_log, factories, listeners, heap,
                 dispatch_loop, nr_sigints, srv, sig_log>>
  /\ UNCHANGED <<padVars, sessVars, kdfVars>>

\* the event loop accepts a SOCKS5 connection on a listener
Accept ==
  /\ loop = "running"
  /\ \E i \in 1 .. Len(listeners) : \E s \in SessionIds :
       /\ srv[listeners[i]].accepting
       /\ s \notin srv[listeners[i]].sessions
       /\ srv' = [srv EXCEPT ![listeners[i]].sessions = @ \cup {s}]
  /\ UNCHANGED <<m_pc, requested, ev_base, host_log, factories, listeners, heap,
                 dispatch_loop, sigint_installed, nr_sigints, loop, sig_log,
                 exit_code>>
  /\ UNCHANGED <<padVars, sessVars, kdfVars>>

\* a live session finishes on its own: server.close_session(self)
SessionDone ==
  /\ loop = "running"
  /\ \E i \in 1 .. Len(listeners) : \E s \in srv[listeners[i]].sessions :
       srv' = [srv EXCEPT ![listeners[i]] = Socks5Server_close_session(@, s)]
  /\ UNCHANGED <<m_pc, requested, ev_base, host_log, factories, listeners, heap,
                 dispatch_loop, sigint_installed, nr_sigints, loop, sig_log,
                 exit_code>>
  /\ UNCHANGED <<padVars, sessVars, kdfVars>>

\* the event loop delivers SIGINT: the callback of main
Sigint ==
  /\ loop = "running"
  /\ sigint_installed
  /\ nr_sigints' = nr_sigints + 1
  /\ LET calls == sigint_cb(nr_sigints + 1, listeners)
         r == ApplyCalls(calls, [srv |-> srv, brk |-> FALSE])
     IN  /\ srv' = r.srv
         /\ loop' = IF r.brk THEN "exited" ELSE "running"
         /\ sig_log' = Append(sig_log, calls)
  /\ UNCHANGED <<m_pc, requested, ev_base, host_log, factories, listeners, heap,
                 dispatch_loop, sigint_installed, exit_code>>
  /\ UNCHANGED <<padVars, sessVars, kdfVars>>

\* event_base_dispatch returned: return 0, and the lists' destructors run
MainReturn ==
  /\ m_pc = "dispatch"
  /\ loop = "exited"
  /\ m_pc' = "exit"
  /\ exit_code' = 0
  /\ srv' = [m \in Methods |-> [srv[m] EXCEPT !.accepting = FALSE, !.sessions = {}]]
  /\ heap' = {}
  /\ UNCHANGED <<requested, ev_base, host_log, factories, listeners,
                 dispatch_loop, sigint_installed, nr_sigints, loop, sig_log>>
  /\ UNCHANGED <<padVars, sessVars, kdfVars>>

MainNext ==
  \/ InitObfs3 \/ InitObfs2 \/ InitScrambleSuit
  \/ MethodsDone \/ StartLoop
  \/ Accept \/ SessionDone \/ Sigint \/ MainReturn

(***************************************************************************)
(* Crypto primitives (schwanenlied/crypto): byte strings are sequences of  *)
(* named chunks, SHA-256 is a collision-free symbolic digest, and an       *)
(* AES-CTR-128 context is its key, its IV and the number of keystream      *)
(* bytes it has produced since it was keyed.                               *)
(***************************************************************************)
NoBytes == <<>>
Unkeyed == [key |-> NoBytes, iv |-> NoBytes, off |-> 0]
\* the tag of bytes that went through no cipher
PlainText == Unkeyed

Sha256_digest(m) == <<"SHA256", m>>
\* SecureBuffer::substr(0, crypto::kAes128KeyLength), and the bytes after it
KeyOf(d) == <<"digest[0..16)", d>>
IvOf(d) == <<"digest[16..32)", d>>

AesCtr_set_state(key, iv) == [key |-> key, iv |-> iv, off |-> 0]
AesCtr_process(c, n) == [c EXCEPT !.off = @ + n]

\* CTR decryption is encryption: bytes enciphered at one keystream position
\* come out in the clear only from a context at that very position
AesCtr_clear(c, seg) == seg.enc = c

init_mac_key == <<"Initiator obfuscation padding">>
resp_mac_key == <<"Responder obfuscation padding">>
init_data == <<"Initiator obfuscated data">>
resp_data == <<"Responder obfuscated data">>

\* Client::mac(key, key_len, buf, len, digest)
mac(key, buf, digest_size) ==
  IF Len(key) = 0 \/ Len(buf) = 0 \/ digest_size # kDigestLength
  THEN [ok |-> FALSE, digest |-> NoBytes]
  ELSE [ok |-> TRUE, digest |-> Sha256_digest(key \o buf \o key)]

\* faulty variant: the initiator cipher is left as the handshake left it
kdf_obfs2_keeps_initiator(s, f) ==
  LET to_mac == s.init_seed_ \o s.resp_seed_
      m1 == mac(init_data, to_mac, kDigestLength)
      m2 == mac(resp_data, to_mac, kDigestLength)
      s2 == [s EXCEPT !.responder_aes_ =
                        AesCtr_set_state(KeyOf(m2.digest), IvOf(m2.digest))]
  IN  IF f \in 1 .. 4 \/ ~m1.ok \/ ~m2.ok THEN [s EXCEPT !.ret = "false"]
      ELSE [s2 EXCEPT !.ret = "true"]

\* faulty variant: the seeds are concatenated responder first
kdf_obfs2_swapped(s, f) ==
  LET to_mac == s.resp_seed_ \o s.init_seed_
      m1 == mac(init_data, to_mac, kDigestLength)
      m2 == mac(resp_data, to_mac, kDigestLength)
      s2 == [s EXCEPT !.initiator_aes_ =
                        AesCtr_set_state(KeyOf(m1.digest), IvOf(m1.digest)),
                      !.responder_aes_ =
                        AesCtr_set_state(KeyOf(m2.digest), IvOf(m2.digest))]
  IN  IF f \in 1 .. 4 \/ ~m1.ok \/ ~m2.ok THEN [s EXCEPT !.ret = "false"]
      ELSE [s2 EXCEPT !.ret = "true"]

\* Client::kdf_obfs2(); f = 1..4 makes the f-th primitive it calls fail
kdf_obfs2(s, f) ==
  LET to_mac == s.init_seed_ \o s.resp_seed_
      m1 == mac(init_data, to_mac, kDigestLength)
      s1 == [s EXCEPT !.initiator_aes_ =
                        AesCtr_set_state(KeyOf(m1.digest), IvOf(m1.digest))]
      m2 == mac(resp_data, to_mac, kDigestLength)
      s2 == [s1 EXCEPT !.responder_aes_ =
                         AesCtr_set_state(KeyOf(m2.digest), IvOf(m2.digest))]
  IN  IF f = 1 \/ ~m1.ok THEN [s EXCEPT !.ret = "false"]
      ELSE IF f = 2 THEN [s EXCEPT !.ret = "false"]
      ELSE IF f = 3 \/ ~m2.ok THEN [s1 EXCEPT !.ret = "false"]
      ELSE IF f = 4 THEN [s1 EXCEPT !.ret = "false"]
      ELSE [s2 EXCEPT !.ret = "true"]

\* the arguments mac and kdf_obfs2 are run on by themselves
MacKeys == {NoBytes, init_mac_key, resp_mac_key, init_data, resp_data}
KdfSeeds == {<<"SEED_A">>, <<"SEED_B">>}
MacBufs == {NoBytes} \cup KdfSeeds \cup {a \o b : a \in KdfSeeds, b \in KdfSeeds}
DigestSizes == {0, kSeedLength, kDigestLength, kDigestLength + 1}

\* mac(key, key_len, buf, len, digest) returns
MacReturn ==
  /\ kdf_pc = "ready"
  /\ mac_out' = mac(mac_in.key, mac_in.buf, mac_in.digest_size)
  /\ kdf_pc' = "mac_done"
  /\ UNCHANGED <<mac_in, kdf_out>>
  /\ UNCHANGED <<padVars, mainVars, sessVars>>

\* kdf_obfs2() returns
KdfReturn ==
  /\ kdf_pc = "mac_done"
  /\ \E f \in 0 .. 4 : kdf_out' = kdf_obfs2(kdf_out, f)
  /\ kdf_pc' = "kdf_done"
  /\ UNCHANGED <<mac_in, mac_out>>
  /\ UNCHANGED <<padVars, mainVars, sessVars>>

KdfNext == MacReturn \/ KdfReturn

(***************************************************************************)
(* The session framework (Socks5Server::Session and its SOCKS4 ancestor)   *)
(***************************************************************************)
Reply(r) == [kind |-> "reply", len |-> 0, val |-> <<r>>, enc |-> PlainText]

\* faulty variant: a failure reply leaves the session kCONNECTING
send_socks5_response_stays(s, reply) ==
  [s EXCEPT !.inc_wr = Append(@, Reply(reply)),
            !.state_ = IF reply = "kSUCCEDED" THEN "kESTABLISHED" ELSE @,
            !.ret = IF reply = "kSUCCEDED" THEN "true" ELSE "false"]

\* send_socks5_response(reply): write the reply to incoming_; kSUCCEDED makes
\* the session kESTABLISHED, any other reply leaves it flushing incoming_,
\* to be closed once the reply is out.  Returns reply == kSUCCEDED.
send_socks5_response(s, reply) ==
  [s EXCEPT !.inc_wr = Append(@, Reply(reply)),
            !.state_ = IF reply = "kSUCCEDED" THEN "kESTABLISHED"
                       ELSE "kFLUSHING_INCOMING",
            !.ret = IF reply = "kSUCCEDED" THEN "true" ELSE "false"]

\* send_socks4_response(success), the same helper of the SOCKS4 framework
send_socks4_response(s, success) ==
  [s EXCEPT !.inc_wr = Append(@, Reply(IF success THEN "SOCKS4_GRANTED"
                                       ELSE "SOCKS4_REJECTED")),
            !.state_ = IF success THEN "kESTABLISHED" ELSE "kFLUSHING_INCOMING",
            !.ret = "void"]

\* server_.close_session(this) / delete this
close_session(s) == [s EXCEPT !.close_calls = @ + 1]

(***************************************************************************)
(* The peer's stream as outgoing_'s input buffer holds it: RESP_SEED, the  *)
(* header enciphered under RESP_PAD_KEY, then bytes the client cannot tell *)
(* apart (padding, then payload).                                          *)
(***************************************************************************)
PeerPadCipher(pr) ==
  LET k == mac(resp_mac_key, pr.seed, kDigestLength).digest
  IN  AesCtr_set_state(KeyOf(k), IvOf(k))

\* the n bytes after the first `from` bytes of the peer's stream
PeerBytes(pr, from, n) ==
  IF from = 0 /\ n = kSeedLength
  THEN [kind |-> "seed", len |-> n, val |-> pr.seed, enc |-> PlainText]
  ELSE IF from = kSeedLength /\ n = kHdrLength
  THEN [kind |-> "hdr", len |-> n,
        val |-> <<htonl(pr.magic), htonl(U32OfNat(pr.padlen))>>,
        enc |-> PeerPadCipher(pr)]
  ELSE [kind |-> "bytes", len |-> n, val |-> <<"peer stream">>,
        enc |-> PlainText]

\* what deciphering something other than the header under its key gives
GarbageHdr == <<htonl(U32(57005, 48879)), htonl(U32(32767, 65535))>>

\* faulty variant: all that is buffered is taken off resp_pad_len_
Min_second(a, b) == b

Min(a, b) == IF a < b THEN a ELSE b

\* faulty variant: the seed alone is waited for
seed_hdr_sz_seed_only == kSeedLength

\* faulty variant: PADLEN = kMaxPadding is refused too
hdr_padlen_too_big_at_max(n) == n >= kMaxPadding

\* kSeedLength + sizeof(uint32_t) * 2: what must be buffered before the
\* seed and header are read
seed_hdr_sz == kSeedLength + kHdrLength

\* ntohl(pad_hdr[0]) != kMagicValue
hdr_magic_bad(pad_hdr) == ntohl(pad_hdr[1]) # U32OfNat(kMagicValue)

\* resp_pad_len_ > kMaxPadding
hdr_padlen_too_big(n) == n > kMaxPadding

(***************************************************************************)
(* obfs2::Client (obfs2client.cc lines 377-686).  A callback is an operator *)
(* from the session's fields to the fields it leaves; f = 0 runs it with   *)
(* every primitive succeeding, f = k makes the k-th fallible call fail.    *)
(***************************************************************************)
SeedSeg(seed) ==
  [kind |-> "seed", len |-> kSeedLength, val |-> seed, enc |-> PlainText]
HdrSeg(padlen, c) ==
  [kind |-> "hdr", len |-> kHdrLength,
   val |-> <<htonl(U32OfNat(kMagicValue)), htonl(U32OfNat(padlen))>>, enc |-> c]

\* faulty variant: the padding is written as generated
PadSeg_as_generated(padlen, c) ==
  [kind |-> "pad", len |-> padlen, val |-> <<"random">>,
   enc |-> [key |-> <<>>, iv |-> <<>>, off |-> 0]]

\* faulty variant: sizeof(padding) bytes are written
PadSeg_whole_buffer(padlen, c) ==
  [kind |-> "pad", len |-> kMaxPadding, val |-> <<"random">>, enc |-> c]

PadSeg(padlen, c) ==
  [kind |-> "pad", len |-> padlen, val |-> <<"random">>, enc |-> c]
DataSeg(from, n, c) ==
  [kind |-> "data", len |-> n, val |-> <<from, n>>, enc |-> c]

\* faulty variant: after the failed write of the header the padding is
\* still generated, enciphered and written
Client_on_outgoing_connected_goeson(s, f, seed, padlen) ==
  LET s1 == [s EXCEPT !.init_seed_ = seed]
      init_pad_key == mac(init_mac_key, s1.init_seed_, kDigestLength)
      s2 == [s1 EXCEPT !.initiator_aes_ =
               AesCtr_set_state(KeyOf(init_pad_key.digest), IvOf(init_pad_key.digest))]
      s3 == [s2 EXCEPT !.initiator_aes_ = AesCtr_process(@, kHdrLength)]
      s4 == [s3 EXCEPT !.out_wr = Append(@, SeedSeg(s3.init_seed_))]
      s5 == [s4 EXCEPT !.out_wr = Append(@, HdrSeg(padlen, s2.initiator_aes_))]
      s6 == [s5 EXCEPT !.initiator_aes_ = AesCtr_process(@, padlen)]
      s7 == [s6 EXCEPT !.out_wr = Append(@, PadSeg(padlen, s5.initiator_aes_))]
      g6 == [s4 EXCEPT !.initiator_aes_ = AesCtr_process(@, padlen),
                       !.out_wr = Append(@, PadSeg(padlen, s4.initiator_aes_)),
                       !.why = "write_hdr"]
  IN  IF f \in 1 .. 5 \/ ~init_pad_key.ok
        THEN send_socks5_response([s EXCEPT !.why = "rand"], "kGENERAL_FAILURE")
      ELSE IF f = 6 THEN send_socks5_response(g6, "kGENERAL_FAILURE")
      ELSE IF padlen = 0 THEN [s5 EXCEPT !.ret = "true"]
      ELSE IF f \in 7 .. 9
        THEN send_socks5_response([s5 EXCEPT !.why = "write_pad"], "kGENERAL_FAILURE")
      ELSE [s7 EXCEPT !.ret = "true"]

\* Client::on_outgoing_connected()
Client_on_outgoing_connected(s, f, seed, padlen) ==
  LET s1 == [s EXCEPT !.init_seed_ = seed]
      init_pad_key == mac(init_mac_key, s1.init_seed_, kDigestLength)
      s2 == [s1 EXCEPT !.initiator_aes_ =
               AesCtr_set_state(KeyOf(init_pad_key.digest), IvOf(init_pad_key.digest))]
      s3 == [s2 EXCEPT !.initiator_aes_ = AesCtr_process(@, kHdrLength)]
      s4 == [s3 EXCEPT !.out_wr = Append(@, SeedSeg(s3.init_seed_))]
      s5 == [s4 EXCEPT !.out_wr = Append(@, HdrSeg(padlen, s2.initiator_aes_))]
      s6 == [s5 EXCEPT !.initiator_aes_ = AesCtr_process(@, padlen)]
      s7 == [s6 EXCEPT !.out_wr = Append(@, PadSeg(padlen, s5.initiator_aes_))]
  IN  IF f = 1 THEN send_socks5_response([s EXCEPT !.why = "rand"], "kGENERAL_FAILURE")
      ELSE IF f = 2 \/ ~init_pad_key.ok
        THEN send_socks5_response([s1 EXCEPT !.why = "mac"], "kGENERAL_FAILURE")
      ELSE IF f = 3
        THEN send_socks5_response([s1 EXCEPT !.why = "set_state"], "kGENERAL_FAILURE")
      ELSE IF f = 4
        THEN send_socks5_response([s2 EXCEPT !.why = "hdr_process"], "kGENERAL_FAILURE")
      ELSE IF f = 5
        THEN send_socks5_response([s3 EXCEPT !.why = "write_seed"], "kGENERAL_FAILURE")
      ELSE IF f = 6
        THEN send_socks5_response([s4 EXCEPT !.why = "write_hdr"], "kGENERAL_FAILURE")
      ELSE IF padlen = 0 THEN [s5 EXCEPT !.ret = "true"]
      ELSE IF f = 7
        THEN send_socks5_response([s5 EXCEPT !.why = "pad_rand"], "kGENERAL_FAILURE")
      ELSE IF f = 8
        THEN send_socks5_response([s5 EXCEPT !.why = "pad_process"], "kGENERAL_FAILURE")
      ELSE IF f = 9
        THEN send_socks5_response([s6 EXCEPT !.why = "write_pad"], "kGENERAL_FAILURE")
      ELSE [s7 EXCEPT !.ret = "true"]

\* Client::on_outgoing_data_connecting(), lines 507-568: read RESP_SEED and
\* the header.  ret = "continue" falls through to the padding.
Client_read_seed_hdr(s, f, pr, rcvd) ==
  LET len == rcvd - s.out_rd
      seed == PeerBytes(pr, s.out_rd, kSeedLength)
      s1 == [s EXCEPT !.resp_seed_ = seed.val, !.out_rd = @ + kSeedLength]
      resp_pad_key == mac(resp_mac_key, s1.resp_seed_, kDigestLength)
      s2 == [s1 EXCEPT !.responder_aes_ =
               AesCtr_set_state(KeyOf(resp_pad_key.digest), IvOf(resp_pad_key.digest))]
      wire == PeerBytes(pr, s2.out_rd, kHdrLength)
      s3 == [s2 EXCEPT !.out_rd = @ + kHdrLength]
      pad_hdr == IF wire.kind = "hdr" /\ AesCtr_clear(s3.responder_aes_, wire)
                 THEN wire.val ELSE GarbageHdr
      s4 == [s3 EXCEPT !.responder_aes_ = AesCtr_process(@, kHdrLength)]
      s5 == [s4 EXCEPT !.resp_pad_len_ = U32ToNat(ntohl(pad_hdr[2]))]
      k == kdf_obfs2(s5, IF f > 5 THEN f - 5 ELSE 0)
  IN  IF len < seed_hdr_sz THEN [s EXCEPT !.ret = "true"]
      ELSE IF f = 1 THEN send_socks5_response(s, "kGENERAL_FAILURE")
      ELSE IF f = 2 \/ ~resp_pad_key.ok
        THEN send_socks5_response(s1, "kGENERAL_FAILURE")
      ELSE IF f = 3 THEN send_socks5_response(s1, "kGENERAL_FAILURE")
      ELSE IF f = 4 THEN send_socks5_response(s2, "kGENERAL_FAILURE")
      ELSE IF f = 5 THEN send_socks5_response(s3, "kGENERAL_FAILURE")
      ELSE IF hdr_magic_bad(pad_hdr)
        THEN send_socks5_response([s4 EXCEPT !.why = "magic"], "kGENERAL_FAILURE")
      ELSE IF hdr_padlen_too_big(s5.resp_pad_len_)
        THEN send_socks5_response([s5 EXCEPT !.why = "padlen"], "kGENERAL_FAILURE")
      ELSE IF k.ret = "false" THEN send_socks5_response(k, "kGENERAL_FAILURE")
      ELSE [k EXCEPT !.received_seed_hdr_ = TRUE, !.ret = "continue"]

\* faulty variant: what follows the padding in the buffer is deciphered in
\* place by the handshake callback
Client_skip_padding_deciphers_rest(s, rcvd) ==
  LET len == rcvd - s.out_rd
      to_drain == Min(s.resp_pad_len_, len)
      s1 == IF s.resp_pad_len_ > 0
            THEN [s EXCEPT !.out_rd = @ + to_drain, !.resp_pad_len_ = @ - to_drain]
            ELSE s
      s2 == [s1 EXCEPT !.responder_aes_ = AesCtr_process(@, rcvd - s1.out_rd)]
  IN  IF s1.resp_pad_len_ > 0 THEN [s1 EXCEPT !.ret = "true"]
      ELSE send_socks5_response(s2, "kSUCCEDED")

\* faulty variant: the padding is taken to have come in one read
Client_skip_padding_single_read(s, rcvd) ==
  LET len == rcvd - s.out_rd
      to_drain == Min(s.resp_pad_len_, len)
      s1 == IF s.resp_pad_len_ > 0
            THEN [s EXCEPT !.out_rd = @ + to_drain, !.resp_pad_len_ = 0]
            ELSE s
  IN  send_socks5_response(s1, "kSUCCEDED")

\* faulty variant: everything buffered is drained as padding
Client_skip_padding_drains_all(s, rcvd) ==
  LET len == rcvd - s.out_rd
      to_drain == Min(s.resp_pad_len_, len)
      s1 == IF s.resp_pad_len_ > 0
            THEN [s EXCEPT !.out_rd = @ + len, !.resp_pad_len_ = @ - to_drain]
            ELSE s
  IN  IF s1.resp_pad_len_ > 0 THEN [s1 EXCEPT !.ret = "true"]
      ELSE send_socks5_response(s1, "kSUCCEDED")

\* faulty variant: the drained padding is run through responder_aes_
Client_skip_padding_deciphers(s, rcvd) ==
  LET len == rcvd - s.out_rd
      to_drain == Min(s.resp_pad_len_, len)
      s1 == IF s.resp_pad_len_ > 0
            THEN [s EXCEPT !.out_rd = @ + to_drain, !.resp_pad_len_ = @ - to_drain,
                           !.responder_aes_ = AesCtr_process(@, to_drain)]
            ELSE s
  IN  IF s1.resp_pad_len_ > 0 THEN [s1 EXCEPT !.ret = "true"]
      ELSE send_socks5_response(s1, "kSUCCEDED")

\* faulty variant: the early return while padding remains is missing
Client_skip_padding_noreturn(s, rcvd) ==
  LET len == rcvd - s.out_rd
      to_drain == Min(s.resp_pad_len_, len)
      s1 == IF s.resp_pad_len_ > 0
            THEN [s EXCEPT !.out_rd = @ + to_drain, !.resp_pad_len_ = @ - to_drain]
            ELSE s
  IN  send_socks5_response(s1, "kSUCCEDED")

\* lines 570-584: skip the responder padding, then reply kSUCCEDED
Client_skip_padding(s, rcvd) ==
  LET len == rcvd - s.out_rd
      to_drain == Min(s.resp_pad_len_, len)
      s1 == IF s.resp_pad_len_ > 0
            THEN [s EXCEPT !.out_rd = @ + to_drain, !.resp_pad_len_ = @ - to_drain]
            ELSE s
  IN  IF s1.resp_pad_len_ > 0 THEN [s1 EXCEPT !.ret = "true"]
      ELSE send_socks5_response(s1, "kSUCCEDED")

\* faulty variant: a refusal while reading the seed and header does not return
Client_on_outgoing_data_connecting_goeson(s, f, pr, rcvd) ==
  LET a == IF s.received_seed_hdr_ THEN [s EXCEPT !.ret = "continue"]
           ELSE Client_read_seed_hdr(s, f, pr, rcvd)
  IN  IF a.ret \in {"continue", "false"} THEN Client_skip_padding(a, rcvd) ELSE a

Client_on_outgoing_data_connecting(s, f, pr, rcvd) ==
  LET a == IF s.received_seed_hdr_ THEN [s EXCEPT !.ret = "continue"]
           ELSE Client_read_seed_hdr(s, f, pr, rcvd)
  IN  IF a.ret = "continue" THEN Client_skip_padding(a, rcvd) ELSE a

\* faulty variant: the bytes written stay in incoming_'s input buffer
Client_on_incoming_data_nodrain(s, f, rcvd) ==
  LET len == rcvd - s.inc_rd
      s2 == [s EXCEPT !.initiator_aes_ = AesCtr_process(@, len)]
      s3 == [s2 EXCEPT !.out_wr = Append(@, DataSeg(s.inc_rd, len, s.initiator_aes_))]
  IN  IF len = 0 THEN [s EXCEPT !.ret = "true"]
      ELSE IF f \in 1 .. 3 THEN [close_session(s) EXCEPT !.ret = "false"]
      ELSE [s3 EXCEPT !.ret = "true"]

\* Client::on_incoming_data(): rcvd bytes of client payload have arrived
Client_on_incoming_data(s, f, rcvd) ==
  LET len == rcvd - s.inc_rd
      s2 == [s EXCEPT !.initiator_aes_ = AesCtr_process(@, len)]
      s3 == [s2 EXCEPT !.out_wr = Append(@, DataSeg(s.inc_rd, len, s.initiator_aes_)),
                       !.inc_rd = @ + len]
  IN  IF len = 0 THEN [s EXCEPT !.ret = "true"]
      ELSE IF f = 1 THEN [close_session(s) EXCEPT !.ret = "false", !.why = "pullup"]
      ELSE IF f = 2 THEN [close_session(s) EXCEPT !.ret = "false", !.why = "process"]
      ELSE IF f = 3 THEN [close_session(s2) EXCEPT !.ret = "false", !.why = "write"]
      ELSE [s3 EXCEPT !.ret = "true"]

\* faulty variant: a failed write only returns false
Client_on_outgoing_data_noclose(s, f, rcvd) ==
  LET len == rcvd - s.out_rd
      s2 == [s EXCEPT !.responder_aes_ = AesCtr_process(@, len)]
      s3 == [s2 EXCEPT !.inc_wr = Append(@, DataSeg(s.out_rd, len, s.responder_aes_)),
                       !.out_rd = @ + len]
  IN  IF len = 0 THEN [s EXCEPT !.ret = "true"]
      ELSE IF f = 1 THEN [close_session(s) EXCEPT !.ret = "false", !.why = "pullup"]
      ELSE IF f = 2 THEN [close_session(s) EXCEPT !.ret = "false", !.why = "process"]
      ELSE IF f = 3 THEN [s2 EXCEPT !.ret = "false", !.why = "write"]
      ELSE [s3 EXCEPT !.ret = "true"]

\* Client::on_outgoing_data(): rcvd bytes of the peer's stream have arrived
Client_on_outgoing_data(s, f, rcvd) ==
  LET len == rcvd - s.out_rd
      s2 == [s EXCEPT !.responder_aes_ = AesCtr_process(@, len)]
      s3 == [s2 EXCEPT !.inc_wr = Append(@, DataSeg(s.out_rd, len, s.responder_aes_)),
                       !.out_rd = @ + len]
  IN  IF len = 0 THEN [s EXCEPT !.ret = "true"]
      ELSE IF f = 1 THEN [close_session(s) EXCEPT !.ret = "false", !.why = "pullup"]
      ELSE IF f = 2 THEN [close_session(s) EXCEPT !.ret = "false", !.why = "process"]
      ELSE IF f = 3 THEN [close_session(s2) EXCEPT !.ret = "false", !.why = "write"]
      ELSE [s3 EXCEPT !.ret = "true"]

(***************************************************************************)
(* Obfs2Client (obfs2client.cc lines 46-326), the SOCKS4-era class         *)
(***************************************************************************)
\* Obfs2Client::on_outgoing_connected(); padlen is what gen_padlen returned,
\* or -1 when its SL_ASSERT fired
Obfs2Client_on_outgoing_connected(s, f, seed, padlen) ==
  LET s1 == [s EXCEPT !.init_seed_ = seed]
      init_pad_key == mac(init_mac_key, s1.init_seed_, kDigestLength)
      s2 == [s1 EXCEPT !.initiator_aes_ =
               AesCtr_set_state(KeyOf(init_pad_key.digest), IvOf(init_pad_key.digest))]
      s3 == [s2 EXCEPT !.initiator_aes_ = AesCtr_process(@, kHdrLength)]
      s4 == [s3 EXCEPT !.out_wr = Append(@, SeedSeg(s3.init_seed_))]
      s5 == [s4 EXCEPT !.out_wr = Append(@, HdrSeg(padlen, s2.initiator_aes_))]
      s6 == [s5 EXCEPT !.out_wr = Append(@, PadSeg(padlen, PlainText))]
  IN  IF f = 1 THEN send_socks4_response([s EXCEPT !.why = "rand"], FALSE)
      ELSE IF f = 2 \/ ~init_pad_key.ok THEN send_socks4_response([s1 EXCEPT !.why = "mac"], FALSE)
      ELSE IF f = 3 THEN send_socks4_response([s1 EXCEPT !.why = "set_state"], FALSE)
      ELSE IF padlen < 0 THEN [s2 EXCEPT !.ret = "abort"]
      ELSE IF f = 4 THEN send_socks4_response([s2 EXCEPT !.why = "hdr_process"], FALSE)
      ELSE IF f = 5 THEN send_socks4_response([s3 EXCEPT !.why = "write_seed"], FALSE)
      ELSE IF f = 6 THEN send_socks4_response([s4 EXCEPT !.why = "write_hdr"], FALSE)
      ELSE IF padlen = 0 THEN [s5 EXCEPT !.ret = "void"]
      ELSE IF f = 7 THEN send_socks4_response([s5 EXCEPT !.why = "write_pad"], FALSE)
      ELSE [s6 EXCEPT !.ret = "void"]

\* Obfs2Client::on_outgoing_data_connecting(), lines 153-201
Obfs2Client_read_seed_hdr(s, f, pr, rcvd) ==
  LET len == rcvd - s.out_rd
      seed == PeerBytes(pr, s.out_rd, kSeedLength)
      s1 == [s EXCEPT !.resp_seed_ = seed.val]
      resp_pad_key == mac(resp_mac_key, s1.resp_seed_, kDigestLength)
      s2 == [s1 EXCEPT !.responder_aes_ =
               AesCtr_set_state(KeyOf(resp_pad_key.digest), IvOf(resp_pad_key.digest))]
      wire == PeerBytes(pr, s2.out_rd + kSeedLength, kHdrLength)
      pad_hdr == IF wire.kind = "hdr" /\ AesCtr_clear(s2.responder_aes_, wire)
                 THEN wire.val ELSE GarbageHdr
      s3 == [s2 EXCEPT !.responder_aes_ = AesCtr_process(@, kHdrLength)]
      s4 == [s3 EXCEPT !.resp_pad_len_ = U32ToNat(ntohl(pad_hdr[2]))]
      s5 == [s4 EXCEPT !.out_rd = @ + kSeedLength + kHdrLength]
      k == kdf_obfs2(s5, IF f > 4 THEN f - 4 ELSE 0)
  IN  IF len < seed_hdr_sz THEN [s EXCEPT !.ret = "void"]
      ELSE IF f = 1 THEN send_socks4_response(s, FALSE)
      ELSE IF f = 2 \/ ~resp_pad_key.ok THEN send_socks4_response(s1, FALSE)
      ELSE IF f = 3 THEN send_socks4_response(s1, FALSE)
      ELSE IF f = 4 THEN send_socks4_response(s2, FALSE)
      ELSE IF hdr_magic_bad(pad_hdr)
        THEN send_socks4_response([s3 EXCEPT !.why = "magic"], FALSE)
      ELSE IF hdr_padlen_too_big(s4.resp_pad_len_)
        THEN send_socks4_response([s4 EXCEPT !.why = "padlen"], FALSE)
      ELSE IF k.ret = "false" THEN send_socks4_response(k, FALSE)
      ELSE [k EXCEPT !.received_seed_hdr_ = TRUE, !.ret = "continue"]

\* lines 203-214
Obfs2Client_skip_padding(s, rcvd) ==
  LET len == rcvd - s.out_rd
      to_drain == Min(s.resp_pad_len_, len)
      s1 == IF s.resp_pad_len_ > 0
            THEN [s EXCEPT !.out_rd = @ + to_drain, !.resp_pad_len_ = @ - to_drain]
            ELSE s
  IN  IF s1.resp_pad_len_ > 0 THEN [s1 EXCEPT !.ret = "void"]
      ELSE send_socks4_response(s1, TRUE)

Obfs2Client_on_outgoing_data_connecting(s, f, pr, rcvd) ==
  LET a == IF s.received_seed_hdr_ THEN [s EXCEPT !.ret = "continue"]
           ELSE Obfs2Client_read_seed_hdr(s, f, pr, rcvd)
  IN  IF a.ret = "continue" THEN Obfs2Client_skip_padding(a, rcvd) ELSE a

\* Obfs2Client::on_incoming_data()
Obfs2Client_on_incoming_data(s, f, rcvd) ==
  LET len == rcvd - s.inc_rd
      s2 == [s EXCEPT !.initiator_aes_ = AesCtr_process(@, len)]
      s3 == [s2 EXCEPT !.out_wr = Append(@, DataSeg(s.inc_rd, len, s.initiator_aes_))]
      s4 == [s3 EXCEPT !.inc_rd = @ + len]
  IN  IF s.state_ # "kESTABLISHED" THEN [s EXCEPT !.ret = "void"]
      ELSE IF len = 0 THEN [s EXCEPT !.ret = "void"]
      ELSE IF f = 1 THEN [close_session(s) EXCEPT !.ret = "void", !.why = "pullup"]
      ELSE IF f = 2 THEN [close_session(s) EXCEPT !.ret = "void", !.why = "process"]
      ELSE IF f = 3 THEN [close_session(s2) EXCEPT !.ret = "void", !.why = "write"]
      ELSE [s4 EXCEPT !.ret = "void"]

\* Obfs2Client::on_outgoing_data()
Obfs2Client_on_outgoing_data(s, f, rcvd) ==
  LET len == rcvd - s.out_rd
      s2 == [s EXCEPT !.responder_aes_ = AesCtr_process(@, len)]
      s3 == [s2 EXCEPT !.inc_wr = Append(@, DataSeg(s.out_rd, len, s.responder_aes_))]
      s4 == [s3 EXCEPT !.out_rd = @ + len]
  IN  IF s.state_ # "kESTABLISHED" THEN [s EXCEPT !.ret = "void"]
      ELSE IF len = 0 THEN [s EXCEPT !.ret = "void"]
      ELSE IF f = 1 THEN [close_session(s) EXCEPT !.ret = "void", !.why = "pullup"]
      ELSE IF f = 2 THEN [close_session(s) EXCEPT !.ret = "void", !.why = "process"]
      ELSE IF f = 3 THEN [close_session(s2) EXCEPT !.ret = "void", !.why = "write"]
      ELSE [s4 EXCEPT !.ret = "void"]

(***************************************************************************)
(* One session under the event loop                                        *)
(***************************************************************************)
Impls == {"Obfs2Client", "Client"}

\* what RAND_bytes / rand_.get_bytes stores into init_seed_
InitSeeds == {<<"INIT_SEED">>}
ZeroSeed == <<"zero seed">>

\* the values pad_dist_(rand_) is drawn from: it is uniform on 0..kMaxPadding
PadDistValues == {0, 1, kMaxPadding}

\* the words gen_padlen's generator yields in a session's handshake
SessRngWords == {U32(0, 0), U32(65535, 4097), U32(0, 4096), U32(0, kMaxPadding),
                 U32(0, kMaxPadding + 1), U32(0, kPadMask)}

\* the peer's handshakes: its seed, and the MAGIC and PADLEN its header holds
PeerPadlens == {0, 1, kMaxPadding, kMaxPadding + 1}
Peers ==
  {[seed |-> <<"RESP_SEED">>, magic |-> U32OfNat(kMagicValue), padlen |-> p] :
     p \in PeerPadlens}
  \cup {[seed |-> <<"RESP_SEED">>, magic |-> U32(57005, 48879), padlen |-> 0],
        [seed |-> <<"RESP_SEED">>, magic |-> U32(32458, 62763), padlen |-> 1]}

\* the sizes of the reads the runtime delivers
ChunkSizes == {1, 23, 24, kMaxPadding}
PayloadSizes == {1, 16}

\* the primitive of a callback that fails; 0: none
FailPoints == 0 .. 9

Sess ==
  [state_ |-> state_, init_seed_ |-> init_seed_, resp_seed_ |-> resp_seed_,
   initiator_aes_ |-> initiator_aes_, responder_aes_ |-> responder_aes_,
   received_seed_hdr_ |-> received_seed_hdr_, resp_pad_len_ |-> resp_pad_len_,
   out_wr |-> out_wr, inc_wr |-> inc_wr, out_rd |-> out_rd, inc_rd |-> inc_rd,
   close_calls |-> close_calls, ret |-> "none", why |-> ""]

\* the callback `op` returned leaving r; a session it asked the server to
\* close is destroyed as soon as the callback has returned
Commit(r, op) ==
  /\ state_' = IF r.close_calls > close_calls THEN "kCLOSED" ELSE r.state_
  /\ proc' = IF r.ret = "abort" THEN "aborted" ELSE proc
  /\ init_seed_' = r.init_seed_
  /\ resp_seed_' = r.resp_seed_
  /\ initiator_aes_' = r.initiator_aes_
  /\ responder_aes_' = r.responder_aes_
  /\ received_seed_hdr_' = r.received_seed_hdr_
  /\ resp_pad_len_' = r.resp_pad_len_
  /\ out_wr' = r.out_wr
  /\ inc_wr' = r.inc_wr
  /\ out_rd' = r.out_rd
  /\ inc_rd' = r.inc_rd
  /\ close_calls' = r.close_calls
  /\ last' = [op |-> op, ret |-> r.ret, why |-> r.why]

\* the outgoing TCP connect completed: on_outgoing_connected()
OutgoingConnected ==
  /\ proc = "running"
  /\ state_ = "kCONNECTING"
  /\ ~connected
  /\ connected' = TRUE
  /\ \E f \in FailPoints : \E seed \in InitSeeds :
       IF impl = "Client"
       THEN \E padlen \in PadDistValues :
              Commit(Client_on_outgoing_connected(Sess, f, seed, padlen),
                     "on_outgoing_connected")
       ELSE \E r \in {w \in SessRngWords : ~gen_padlen_retry(gen_padlen_mask(w))} :
            \E o \in gen_padlen_assert(gen_padlen_mask(r)) :
              Commit(Obfs2Client_on_outgoing_connected(Sess, f, seed,
                       IF o = "pass" THEN U32ToNat(gen_padlen_mask(r)) ELSE -1),
                     "on_outgoing_connected")
  /\ UNCHANGED <<impl, peer, out_rcvd, inc_rcvd, nevents>>
  /\ UNCHANGED <<padVars, mainVars, kdfVars>>

\* faulty variant: the handshake callback stays installed once established
outgoing_read_cb_ignores_state(st) == "on_outgoing_data_connecting"

\* the callback the session runs for bytes read from outgoing_:
\* on_outgoing_data_connecting() while kCONNECTING, on_outgoing_data() while
\* kESTABLISHED
outgoing_read_cb(st) ==
  IF st = "kCONNECTING" THEN "on_outgoing_data_connecting" ELSE "on_outgoing_data"

\* the state a callback asserts or tests on entry
ExpectedState(op) ==
  IF op = "on_outgoing_data_connecting" THEN "kCONNECTING" ELSE "kESTABLISHED"

\* SL_ASSERT(state_ == State::...) at the top of a callback; Obfs2Client's
\* data callbacks test the state and return instead
callback_assert(im, op, st) ==
  IF im = "Obfs2Client" /\ op # "on_outgoing_data_connecting"
  THEN {"pass"}
  ELSE SL_ASSERT(st = ExpectedState(op))

\* the assertion at the top of callback `op` stopped the process
AssertAbort(op) ==
  /\ proc' = "aborted"
  /\ last' = [op |-> op, ret |-> "abort", why |-> "SL_ASSERT"]
  /\ UNCHANGED <<state_, init_seed_, resp_seed_, initiator_aes_, responder_aes_,
                 received_seed_hdr_, resp_pad_len_, out_wr, inc_wr, out_rd,
                 inc_rd, close_calls>>

\* n more bytes of the peer's stream are read into outgoing_'s input buffer
\* and the read callback runs
OutgoingRead ==
  /\ proc = "running"
  /\ connected
  /\ state_ \in {"kCONNECTING", "kESTABLISHED"}
  /\ nevents < MaxEvents
  /\ nevents' = nevents + 1
  /\ \E n \in ChunkSizes : \E f \in FailPoints :
     \E o \in callback_assert(impl, outgoing_read_cb(state_), state_) :
       /\ out_rcvd' = out_rcvd + n
       /\ IF o = "abort"
          THEN AssertAbort(outgoing_read_cb(state_))
          ELSE IF outgoing_read_cb(state_) = "on_outgoing_data_connecting"
          THEN Commit(IF impl = "Client"
                      THEN Client_on_outgoing_data_connecting(Sess, f, peer,
                                                              out_rcvd + n)
                      ELSE Obfs2Client_on_outgoing_data_connecting(Sess, f, peer,
                                                                   out_rcvd + n),
                      "on_outgoing_data_connecting")
          ELSE Commit(IF impl = "Client"
                      THEN Client_on_outgoing_data(Sess, f, out_rcvd + n)
                      ELSE Obfs2Client_on_outgoing_data(Sess, f, out_rcvd + n),
                      "on_outgoing_data")
  /\ UNCHANGED <<impl, peer, connected, inc_rcvd>>
  /\ UNCHANGED <<padVars, mainVars, kdfVars>>

\* n bytes of client payload are read into incoming_'s input buffer and the
\* read callback runs on_incoming_data()
IncomingRead ==
  /\ proc = "running"
  /\ state_ = "kESTABLISHED"
  /\ nevents < MaxEvents
  /\ nevents' = nevents + 1
  /\ \E n \in PayloadSizes : \E f \in FailPoints :
     \E o \in callback_assert(impl, "on_incoming_data", state_) :
       /\ inc_rcvd' = inc_rcvd + n
       /\ IF o = "abort"
          THEN AssertAbort("on_incoming_data")
          ELSE Commit(IF impl = "Client"
                      THEN Client_on_incoming_data(Sess, f, inc_rcvd + n)
                      ELSE Obfs2Client_on_incoming_data(Sess, f, inc_rcvd + n),
                      "on_incoming_data")
  /\ UNCHANGED <<impl, peer, connected, out_rcvd>>
  /\ UNCHANGED <<padVars, mainVars, kdfVars>>

\* the bridge keeps sending while the failure reply is being flushed: the
\* bytes arrive, and no callback of the transport runs for them
OutgoingReadFlushing ==
  /\ proc = "running"
  /\ connected
  /\ state_ = "kFLUSHING_INCOMING"
  /\ nevents < MaxEvents
  /\ nevents' = nevents + 1
  /\ \E n \in ChunkSizes : out_rcvd' = out_rcvd + n
  /\ UNCHANGED <<impl, proc, state_, connected, init_seed_, resp_seed_,
                 initiator_aes_, responder_aes_, received_seed_hdr_,
                 resp_pad_len_, out_wr, inc_wr, peer, out_rd, inc_rcvd, inc_rd,
                 close_calls, last>>
  /\ UNCHANGED <<padVars, mainVars, kdfVars>>

\* the failure reply has been flushed to the SOCKS client: the session closes
Flushed ==
  /\ proc = "running"
  /\ state_ = "kFLUSHING_INCOMING"
  /\ state_' = "kCLOSED"
  /\ UNCHANGED <<impl, proc, connected, init_seed_, resp_seed_,
                 initiator_aes_, responder_aes_, received_seed_hdr_,
                 resp_pad_len_, out_wr, inc_wr, peer, out_rcvd, out_rd, inc_rcvd,
                 inc_rd, close_calls, nevents, last>>
  /\ UNCHANGED <<padVars, mainVars, kdfVars>>

SessNext ==
  \/ OutgoingConnected \/ OutgoingRead \/ IncomingRead
  \/ OutgoingReadFlushing \/ Flushed

(***************************************************************************)
(* The peer's handshake cut into reads: a valid stream of RESP_SEED, header *)
(* and PADLEN bytes of padding reaches outgoing_ in non-empty chunks of any *)
(* sizes, and on_outgoing_data_connecting() runs once per chunk with no    *)
(* primitive failing.                                                      *)
(***************************************************************************)
FragPadlens == {0, 1, 3}
FragPeers ==
  {[seed |-> <<"RESP_SEED">>, magic |-> U32OfNat(kMagicValue), padlen |-> p] :
     p \in FragPadlens}
StreamLen(pr) == kSeedLength + kHdrLength + pr.padlen

DeliverChunk ==
  /\ proc = "running"
  /\ connected
  /\ state_ = "kCONNECTING"
  /\ out_rcvd < StreamLen(peer)
  /\ nevents' = nevents + 1
  /\ \E n \in 1 .. (StreamLen(peer) - out_rcvd) :
       /\ out_rcvd' = out_rcvd + n
       /\ Commit(IF impl = "Client"
                 THEN Client_on_outgoing_data_connecting(Sess, 0, peer,
                                                         out_rcvd + n)
                 ELSE Obfs2Client_on_outgoing_data_connecting(Sess, 0, peer,
                                                              out_rcvd + n),
                 "on_outgoing_data_connecting")
  /\ UNCHANGED <<impl, peer, connected, inc_rcvd>>
  /\ UNCHANGED <<padVars, mainVars, kdfVars>>

FragNext == OutgoingConnected \/ DeliverChunk

\* part of the peer's stream is still to come, and the session waits for it
StreamPending ==
  /\ proc = "running"
  /\ connected
  /\ state_ = "kCONNECTING"
  /\ out_rcvd < StreamLen(peer)
\* a read is delivered; DeliverChunk is the only step that counts one, and
\* it can be taken whenever StreamPending holds
ChunkRead == StreamPending /\ nevents' = nevents + 1

(***************************************************************************)
(* Properties                                                              *)
(***************************************************************************)
IsReply(x) == x.kind = "reply"
Replies == SelectSeq(inc_wr, IsReply)
IsGranted(x) == x.kind = "reply" /\ x.val \in {<<"kSUCCEDED">>, <<"SOCKS4_GRANTED">>}
IsRefused(x) ==
  x.kind = "reply" /\ x.val \in {<<"kGENERAL_FAILURE">>, <<"SOCKS4_REJECTED">>}
Granted == SelectSeq(inc_wr, IsGranted)
Refused == SelectSeq(inc_wr, IsRefused)

\* the PADLEN the client's own header announces, once the header is queued
SentPadlen == U32ToNat(ntohl(out_wr[2].val[2]))

\* INIT_SEED, the header and PADLEN bytes of padding are queued on outgoing_
HandshakeSent ==
  /\ Len(out_wr) >= 2
  /\ out_wr[1].kind = "seed" /\ out_wr[1].len = kSeedLength
  /\ out_wr[2].kind = "hdr" /\ out_wr[2].len = kHdrLength
  /\ \/ SentPadlen = 0
     \/ /\ Len(out_wr) >= 3
        /\ out_wr[3].kind = "pad"
        /\ out_wr[3].len = SentPadlen

\* the responder's seed, header and all of its padding were consumed
ResponderConsumed ==
  /\ received_seed_hdr_
  /\ resp_pad_len_ = 0
  /\ out_rd >= kSeedLength + kHdrLength + peer.padlen

PeerHdrValid ==
  /\ peer.magic = U32OfNat(kMagicValue)
  /\ peer.padlen <= kMaxPadding

\* C1: a session becomes kESTABLISHED (the granting reply is issued) at most
\* once and only with the whole client handshake queued on outgoing_ and the
\* responder's seed, header and padding consumed; and once a valid
\* responder handshake has arrived in full and nothing was refused, it is
\* established: the granting reply is there exactly once.
C1_EstablishedOnceAfterHandshake ==
  /\ Len(Granted) <= 1
  /\ (state_ = "kESTABLISHED" \/ Len(Granted) = 1) =>
       /\ HandshakeSent
       /\ ResponderConsumed
       /\ Len(Granted) = 1
       /\ connected
  /\ ( /\ proc = "running"
       /\ last.op = "on_outgoing_data_connecting"
       /\ PeerHdrValid
       /\ out_rcvd >= kSeedLength + kHdrLength + peer.padlen
       /\ Len(Refused) = 0 ) => Len(Granted) = 1

\* a session established after a responder padding that took several reads
C1_Witness ==
  /\ state_ = "kESTABLISHED"
  /\ impl = "Client"
  /\ peer.padlen = kMaxPadding
  /\ SentPadlen = kMaxPadding
  /\ nevents >= 3

\* C2: at most one SOCKS reply is ever issued on a session, whatever
\* callbacks run and whatever arrives from the bridge after a refusal.
C2_AtMostOneReply == Len(Replies) <= 1

\* a refusal issued while reading the responder's header, with a further
\* seed-and-header's worth of bytes arrived from the bridge since
C2_Witness ==
  /\ last.op = "on_outgoing_data_connecting"
  /\ Len(Refused) = 1
  /\ out_rcvd - out_rd >= kSeedLength + kHdrLength
  /\ state_ = "kFLUSHING_INCOMING"

\* the calls one stage of the shutdown makes, over all listeners
CloseCalls == [i \in 1 .. Len(listeners) |-> <<"close", listeners[i]>>]
CloseSessionsCalls ==
  [i \in 1 .. Len(listeners) |-> <<"close_sessions", listeners[i]>>]
LoopbreakCall == << <<"event_base_loopbreak">> >>
LiveSessions == UNION {srv[m].sessions : m \in Methods}

\* C3 (as the code has it): the first SIGINT only calls close() on every
\* listener; the second calls close_sessions() on every server and then,
\* falling through, event_base_loopbreak: the loop has exited after the
\* second delivery and no third one is needed or served.
C3_ShutdownStages ==
  /\ Len(sig_log) = nr_sigints
  /\ nr_sigints <= 2
  /\ nr_sigints >= 1 => sig_log[1] = CloseCalls
  /\ nr_sigints >= 2 => sig_log[2] = CloseSessionsCalls \o LoopbreakCall
  /\ (loop = "exited") <=> (nr_sigints = 2)

\* the loop left by the second SIGINT, with two listeners up
C3_Witness ==
  /\ nr_sigints = 2
  /\ loop = "exited"
  /\ Len(listeners) >= 2
  /\ m_pc = "dispatch"

\* C3 as stated: the second signal only force-closes the sessions and the
\* loop is broken on the third delivery, not earlier.
C3_AsStated ==
  /\ nr_sigints >= 2 => sig_log[2] = CloseSessionsCalls
  /\ loop = "exited" => nr_sigints >= 3

\* C4: the first SIGINT calls close() on every listener and nothing else:
\* no close_sessions(), no session destroyed, the loop keeps running and a
\* live session can still run to its own end.
C4_FirstSignalOnlyCloses ==
  [][ (nr_sigints = 0 /\ nr_sigints' = 1) =>
        /\ sig_log' = << CloseCalls >>
        /\ \A m \in Methods :
             /\ srv'[m].sessions = srv[m].sessions
             /\ srv'[m].n_close_sessions = 0
             /\ ~srv'[m].accepting
        /\ \A i \in 1 .. Len(listeners) : srv'[listeners[i]].n_close = 1
        /\ loop' = "running"
        /\ m_pc' = "dispatch"
        /\ UNCHANGED <<listeners, factories, heap>> ]_vars

\* after the first SIGINT: two listeners closed, a session still alive
C4_Witness ==
  /\ nr_sigints = 1
  /\ loop = "running"
  /\ Len(listeners) >= 2
  /\ LiveSessions # {}
  /\ \A m \in Methods : ~srv[m].accepting

IsData(x) == x.kind = "data"
\* client payload enciphered onto outgoing_, peer payload deciphered onto incoming_
SentData == SelectSeq(out_wr, IsData)
RcvdData == SelectSeq(inc_wr, IsData)

\* the initiator cipher as on_outgoing_connected leaves it: keyed from
\* INIT_PAD_KEY, advanced over the header and the padding it enciphered
InitPadCipherAfterHandshake ==
  LET k == mac(init_mac_key, init_seed_, kDigestLength).digest
  IN  AesCtr_process(AesCtr_set_state(KeyOf(k), IvOf(k)), kHdrLength + SentPadlen)

\* the ciphers keyed from INIT_SECRET and RESP_SECRET, at position 0
InitDataCipher ==
  LET d == mac(init_data, init_seed_ \o resp_seed_, kDigestLength).digest
  IN  AesCtr_set_state(KeyOf(d), IvOf(d))
RespDataCipher ==
  LET d == mac(resp_data, init_seed_ \o resp_seed_, kDigestLength).digest
  IN  AesCtr_set_state(KeyOf(d), IvOf(d))

\* C5 (as the code has it): accepting the responder's header re-keys the
\* initiator cipher from MAC("Initiator obfuscated data", INIT_SEED |
\* RESP_SEED); the first byte of client payload is enciphered at position 0
\* of that keystream, not where the header and padding left the pad cipher,
\* and the payload then runs on contiguously.
C5_PayloadUnderInitSecret ==
  /\ (received_seed_hdr_ /\ state_ # "kCLOSED") =>
       initiator_aes_ = AesCtr_process(InitDataCipher, inc_rd)
  /\ \A i \in 1 .. Len(SentData) :
       /\ SentData[i].enc = AesCtr_process(InitDataCipher, SentData[i].val[1])
       /\ SentData[i].enc.key # InitPadCipherAfterHandshake.key
  /\ Len(SentData) >= 1 =>
       /\ SentData[1].val[1] = 0
       /\ SentData[1].enc = InitDataCipher

\* payload sent after a handshake whose padding was enciphered
C5_Witness ==
  /\ impl = "Client"
  /\ Len(SentData) >= 1
  /\ SentPadlen = kMaxPadding
  /\ out_wr[3].enc.off = kHdrLength

\* C5 as stated: the first byte of client payload is enciphered by the
\* cipher state that enciphering the header and padding left behind.
C5_AsStated ==
  (impl = "Client" /\ Len(SentData) >= 1) =>
    SentData[1].enc = InitPadCipherAfterHandshake

\* C6 (as the code has it): the responder's padding is drained without
\* going through responder_aes_; the cipher is re-keyed from RESP_SECRET
\* when the header is accepted and is at position 0 for the first payload
\* byte, which is the byte after seed, header and PADLEN padding bytes.
C6_PaddingNotDeciphered ==
  /\ (received_seed_hdr_ /\ state_ # "kCLOSED") =>
       responder_aes_ =
         AesCtr_process(RespDataCipher,
                        IF Len(RcvdData) = 0 THEN 0
                        ELSE out_rd - (seed_hdr_sz + peer.padlen))
  /\ Len(RcvdData) >= 1 =>
       /\ RcvdData[1].val[1] = seed_hdr_sz + peer.padlen
       /\ RcvdData[1].enc = RespDataCipher

\* peer payload deciphered after a padding of the full kMaxPadding bytes
C6_Witness ==
  /\ impl = "Client"
  /\ Len(RcvdData) >= 1
  /\ peer.padlen = kMaxPadding

\* C6 as stated: at the first payload byte the responder cipher's position
\* accounts for the header plus the PADLEN padding bytes.
C6_AsStated ==
  (impl = "Client" /\ Len(RcvdData) >= 1) =>
    RcvdData[1].enc.off = kHdrLength + peer.padlen

IsPad(x) == x.kind = "pad"

\* C7: the PADLEN in the client's header and the number of padding bytes
\* written are equal and never above kMaxPadding, the size of the padding
\* buffer; gen_padlen returns no more than kMaxPadding for any draw.
C7_PadlenWithinBuffer ==
  /\ Len(out_wr) >= 2 => SentPadlen \in 0 .. kMaxPadding
  /\ \A i \in 1 .. Len(out_wr) :
       IsPad(out_wr[i]) => /\ i = 3
                           /\ out_wr[i].len = SentPadlen
                           /\ out_wr[i].len \in 1 .. kMaxPadding
  /\ (impl = "Obfs2Client" /\ ~connected) =>
       \A v \in gen_padlen(RngWords) : v \in 0 .. kMaxPadding

\* the largest padding, chosen by gen_padlen and written in full
C7_Witness ==
  /\ impl = "Obfs2Client"
  /\ Len(out_wr) = 3
  /\ out_wr[3].len = kMaxPadding
  /\ SentPadlen = kMaxPadding

\* C8 as stated: every PADLEN in 0..kMaxPadding is a value gen_padlen can
\* return.
C8_AsStated ==
  gp_pc = "loop" => (0 .. kMaxPadding) \subseteq gen_padlen(RngWords)

\* the draw 0x00001000: bit 12 is not in the mask, gen_padlen is about to
\* return 0 for it
C8_Witness ==
  /\ gp_pc = "assert"
  /\ gp_rnd = U32(0, 4096)
  /\ gp_ret = U32(0, 0)

\* C9: the responder header is refused for its MAGIC exactly when the MAGIC
\* is not kMagicValue, and for its PADLEN exactly when that exceeds
\* kMaxPadding (8192 passes, 8193 does not).  A header that is not valid is
\* answered with the failure reply, never accepted, never granted, and the
\* session keys are not derived; a valid one is refused only when a
\* primitive failed.
C9_HeaderAcceptedIffValid ==
  /\ received_seed_hdr_ => PeerHdrValid
  /\ last.why = "magic" => /\ peer.magic # U32OfNat(kMagicValue)
                           /\ Len(Refused) = 1
  /\ last.why = "padlen" => /\ peer.magic = U32OfNat(kMagicValue)
                            /\ peer.padlen > kMaxPadding
                            /\ Len(Refused) = 1
  /\ (~PeerHdrValid /\ out_rcvd >= seed_hdr_sz) =>
       /\ Len(Refused) = 1
       /\ Len(Granted) = 0
       /\ ~received_seed_hdr_
       /\ initiator_aes_.key # InitDataCipher.key
       /\ responder_aes_.key # RespDataCipher.key
       /\ state_ \in {"kFLUSHING_INCOMING", "kCLOSED"}
  /\ (PeerHdrValid /\ out_rcvd >= seed_hdr_sz /\ Len(Refused) = 0) =>
       /\ received_seed_hdr_
       /\ initiator_aes_.key = InitDataCipher.key
       /\ responder_aes_.key = RespDataCipher.key

\* a header with the right MAGIC and PADLEN = kMaxPadding + 1 was refused
C9_Witness ==
  /\ impl = "Client"
  /\ peer.magic = U32OfNat(kMagicValue)
  /\ peer.padlen = kMaxPadding + 1
  /\ last.why = "padlen"
  /\ last.ret = "false"
  /\ out_rd = seed_hdr_sz

\* C10: on_outgoing_data_connecting, run with fewer than 24 bytes buffered
\* and the seed and header not yet received, returns true (nothing, in the
\* older class) and leaves the buffer, resp_seed_, both ciphers,
\* received_seed_hdr_, resp_pad_len_ and the SOCKS side untouched.
C10_PartialHandshakeIsNoop ==
  [][ ( /\ state_ = "kCONNECTING"
        /\ proc = "running"
        /\ out_rcvd' # out_rcvd
        /\ ~received_seed_hdr_
        /\ out_rcvd' - out_rd < kSeedLength + kHdrLength ) =>
      ( /\ last'.op = "on_outgoing_data_connecting"
        /\ last'.ret = IF impl = "Client" THEN "true" ELSE "void"
        /\ UNCHANGED <<out_rd, resp_seed_, initiator_aes_, responder_aes_,
                       received_seed_hdr_, resp_pad_len_, inc_wr, out_wr,
                       state_, close_calls, init_seed_, inc_rd>> ) ]_vars

\* 23 bytes buffered over two reads, the session still waiting
C10_Witness ==
  /\ impl = "Client"
  /\ last.op = "on_outgoing_data_connecting"
  /\ last.ret = "true"
  /\ out_rcvd = kSeedLength + kHdrLength - 1
  /\ out_rd = 0
  /\ state_ = "kCONNECTING"

\* C11: once the responder's header with padding length P is accepted,
\* exactly P further bytes are drained, over as many reads as it takes; the
\* granting reply is issued in the very invocation that brings
\* resp_pad_len_ to 0 (for P = 0 the one that read the header), with
\* exactly 24 + P bytes taken from outgoing_'s input.
C11_PaddingSkippedThenGranted ==
  /\ received_seed_hdr_ => (resp_pad_len_ = 0 <=> Len(Granted) = 1)
  /\ (received_seed_hdr_ /\ resp_pad_len_ > 0) =>
       /\ state_ = "kCONNECTING"
       /\ out_rd = seed_hdr_sz + peer.padlen - resp_pad_len_
       /\ out_rd = out_rcvd
  /\ (Len(Granted) = 1 /\ Len(RcvdData) = 0) =>
       out_rd = seed_hdr_sz + peer.padlen
  /\ Len(Granted) = 1 => last.op # "on_outgoing_connected"

\* granted after a padding of kMaxPadding bytes that took several reads,
\* the last of which brought more than the padding that was left
C11_Witness ==
  /\ impl = "Client"
  /\ last.op = "on_outgoing_data_connecting"
  /\ Len(Granted) = 1
  /\ peer.padlen = kMaxPadding
  /\ nevents >= 3
  /\ out_rd = seed_hdr_sz + kMaxPadding
  /\ out_rcvd > out_rd

\* the cipher keyed from INIT_PAD_KEY, at position 0
InitPadCipher ==
  LET k == mac(init_mac_key, init_seed_, kDigestLength).digest
  IN  AesCtr_set_state(KeyOf(k), IvOf(k))

RECURSIVE SumLen(_)
SumLen(segs) == IF segs = <<>> THEN 0 ELSE Head(segs).len + SumLen(Tail(segs))

\* on_outgoing_connected has returned without refusing the request
ConnectedOk ==
  /\ last.op = "on_outgoing_connected"
  /\ proc = "running"
  /\ Len(Refused) = 0

\* C12: a successful on_outgoing_connected leaves on outgoing_, in this
\* order and nothing else: the 16 bytes of INIT_SEED in the clear, the 8
\* byte header (MAGIC, PADLEN) enciphered from position 0 of the
\* INIT_PAD_KEY keystream, and PADLEN bytes of padding for the PADLEN the
\* header holds: 24 + PADLEN bytes.
C12_HandshakeLayout ==
  ConnectedOk =>
    /\ state_ = "kCONNECTING"
    /\ Len(out_wr) = IF SentPadlen = 0 THEN 2 ELSE 3
    /\ out_wr[1] = [kind |-> "seed", len |-> kSeedLength, val |-> init_seed_,
                    enc |-> PlainText]
    /\ out_wr[2].kind = "hdr"
    /\ out_wr[2].len = kHdrLength
    /\ ntohl(out_wr[2].val[1]) = U32OfNat(kMagicValue)
    /\ out_wr[2].enc = InitPadCipher
    /\ SentPadlen > 0 => /\ out_wr[3].kind = "pad"
                         /\ out_wr[3].len = SentPadlen
    /\ SumLen(out_wr) = kSeedLength + kHdrLength + SentPadlen

\* seed, header and one byte of padding written by obfs2::Client
C12_Witness ==
  /\ impl = "Client"
  /\ ConnectedOk
  /\ last.ret = "true"
  /\ Len(out_wr) = 3
  /\ SentPadlen = 1
  /\ SumLen(out_wr) = 25

IsPadSeg(x) == x.kind = "pad"
SentPadding == SelectSeq(out_wr, IsPadSeg)

\* C13 (as the code has it): obfs2::Client runs its padding through
\* initiator_aes_, continuing the INIT_PAD_KEY keystream right after the 8
\* header bytes; Obfs2Client writes the bytes of the random source as they
\* are, and its cipher stays where the header left it until it is re-keyed.
C13_PaddingCipherPerClass ==
  /\ Len(SentPadding) <= 1
  /\ \A i \in 1 .. Len(SentPadding) :
       SentPadding[i].enc = IF impl = "Client"
                            THEN AesCtr_process(InitPadCipher, kHdrLength)
                            ELSE PlainText
  /\ (ConnectedOk /\ state_ = "kCONNECTING") =>
       initiator_aes_ =
         AesCtr_process(InitPadCipher,
                        kHdrLength + IF impl = "Client" THEN SentPadlen ELSE 0)

\* Obfs2Client has written a full padding that went through no cipher
C13_Witness ==
  /\ impl = "Obfs2Client"
  /\ ConnectedOk
  /\ Len(SentPadding) = 1
  /\ SentPadding[1].len = kMaxPadding
  /\ SentPadding[1].enc = PlainText
  /\ initiator_aes_.off = kHdrLength

\* C13 as stated: every padding byte written went through the initiator
\* cipher, right after the header in the INIT_PAD_KEY keystream.
C13_AsStated ==
  \A i \in 1 .. Len(SentPadding) :
    SentPadding[i].enc = AesCtr_process(InitPadCipher, kHdrLength)

\* the segments of a direction follow one another from stream offset `from`
RECURSIVE Contiguous(_, _)
Contiguous(segs, from) ==
  \/ segs = <<>>
  \/ /\ Head(segs).val[1] = from
     /\ Head(segs).val[2] = Head(segs).len
     /\ Head(segs).len > 0
     /\ Contiguous(Tail(segs), from + Head(segs).len)

\* where the responder's payload starts in its stream
RespPayloadStart == seed_hdr_sz + peer.padlen

\* C14: in each direction the relayed segments are the submitted bytes, in
\* order, without gap or overlap however the reads split them, each
\* enciphered at its own position of that direction's keystream (so a peer
\* running the same keystream over them gets the bytes back); a callback
\* that succeeds leaves nothing of what was buffered behind.
C14_RelayInOrderUnderCipher ==
  /\ Contiguous(SentData, 0)
  /\ SumLen(SentData) = inc_rd
  /\ \A i \in 1 .. Len(SentData) :
       /\ SentData[i].enc = AesCtr_process(InitDataCipher, SentData[i].val[1])
       /\ AesCtr_clear(AesCtr_process(InitDataCipher, SentData[i].val[1]),
                       SentData[i])
  /\ Contiguous(RcvdData, RespPayloadStart)
  /\ Len(RcvdData) >= 1 => SumLen(RcvdData) = out_rd - RespPayloadStart
  /\ \A i \in 1 .. Len(RcvdData) :
       /\ RcvdData[i].enc =
            AesCtr_process(RespDataCipher, RcvdData[i].val[1] - RespPayloadStart)
       /\ AesCtr_clear(AesCtr_process(RespDataCipher,
                                      RcvdData[i].val[1] - RespPayloadStart),
                       RcvdData[i])
  /\ (state_ = "kESTABLISHED" /\ last.op = "on_incoming_data") =>
       inc_rd = inc_rcvd
  /\ (state_ = "kESTABLISHED" /\ last.op = "on_outgoing_data") =>
       out_rd = out_rcvd
  /\ \A i \in 1 .. Len(out_wr) : IsData(out_wr[i]) => i > 2
  /\ \A i \in 1 .. Len(inc_wr) : IsData(inc_wr[i]) => i > 1

\* two reads of different sizes relayed to the bridge and one to the client
C14_Witness ==
  /\ impl = "Client"
  /\ state_ = "kESTABLISHED"
  /\ Len(SentData) = 2
  /\ SentData[1].len # SentData[2].len
  /\ Len(RcvdData) = 1

DataOps == {"on_incoming_data", "on_outgoing_data"}
DataFailures == {"pullup", "process", "write"}

\* C15: when the pullup, the cipher or the write of on_incoming_data or
\* on_outgoing_data fails, the callback has the session closed, once,
\* returns failure (nothing, in Obfs2Client, which deletes itself), and
\* nothing of that invocation is relayed or taken from the input buffer;
\* the session is closed by these callbacks in no other case.
C15_DataFailureClosesOnce ==
  [][ /\ ( /\ nevents' # nevents
           /\ last'.op \in DataOps
           /\ last'.why # "" ) =>
           /\ last'.why \in DataFailures
           /\ close_calls = 0
           /\ close_calls' = 1
           /\ state_ = "kESTABLISHED"
           /\ state_' = "kCLOSED"
           /\ last'.ret = IF impl = "Client" THEN "false" ELSE "void"
           /\ UNCHANGED <<out_wr, inc_wr, inc_rd, out_rd>>
           /\ (last'.op = "on_incoming_data" => inc_rcvd' > inc_rd')
           /\ (last'.op = "on_outgoing_data" => out_rcvd' > out_rd')
      /\ close_calls' # close_calls =>
           /\ last'.op \in DataOps
           /\ last'.why \in DataFailures
      /\ ( /\ nevents' # nevents
           /\ last'.op \in DataOps
           /\ last'.why = "" ) =>
           /\ state_' = "kESTABLISHED"
           /\ last'.ret = IF impl = "Client" THEN "true" ELSE "void" ]_vars

\* the write to incoming_ failed in on_outgoing_data: closed, nothing relayed
C15_Witness ==
  /\ impl = "Client"
  /\ last = [op |-> "on_outgoing_data", ret |-> "false", why |-> "write"]
  /\ close_calls = 1
  /\ state_ = "kCLOSED"
  /\ Len(RcvdData) = 0
  /\ out_rcvd > out_rd

\* what on_outgoing_connected has written when the step named fails
WrittenBeforeFailure(why) ==
  CASE why \in {"rand", "mac", "set_state", "hdr_process", "write_seed"} -> 0
    [] why = "write_hdr" -> 1
    [] why \in {"pad_rand", "pad_process", "write_pad"} -> 2

ConnectFailures ==
  {"rand", "mac", "set_state", "hdr_process", "write_seed", "write_hdr",
   "pad_rand", "pad_process", "write_pad"}

\* C16: when a step of on_outgoing_connected fails (random source, MAC,
\* keying, header or padding encryption, one of the three writes), the
\* failure reply is issued once and is the only reply, the callback
\* returns failure (nothing, in Obfs2Client), and outgoing_ holds only what
\* the steps before the failing one wrote; a call in which no step fails
\* issues no reply.
C16_ConnectFailureRepliesOnce ==
  last.op = "on_outgoing_connected" =>
    /\ last.why \in ConnectFailures \cup {""}
    /\ last.why # "" =>
         /\ Len(Refused) = 1
         /\ Len(inc_wr) = 1
         /\ last.ret = IF impl = "Client" THEN "false" ELSE "void"
         /\ Len(out_wr) = WrittenBeforeFailure(last.why)
         /\ \A i \in 1 .. Len(out_wr) : out_wr[i].kind = <<"seed", "hdr">>[i]
         /\ state_ \in {"kFLUSHING_INCOMING", "kCLOSED"}
         /\ ~received_seed_hdr_
    /\ last.why = "" => Len(inc_wr) = 0

\* the write of the header failed: the seed alone is on outgoing_
C16_Witness ==
  /\ impl = "Client"
  /\ last = [op |-> "on_outgoing_connected", ret |-> "false", why |-> "write_hdr"]
  /\ Len(out_wr) = 1
  /\ Len(Refused) = 1
  /\ out_rcvd > 0

\* C17: the state a callback asserts on entry is the state it is run in:
\* on_outgoing_data_connecting runs only while kCONNECTING, also for bytes
\* that arrive right after the granting reply, on_incoming_data and
\* on_outgoing_data only while kESTABLISHED; no assertion stops the process.
C17_CallbackStateAssertions ==
  [][ /\ last'.why # "SL_ASSERT"
      /\ ( /\ nevents' # nevents
           /\ state_ # "kFLUSHING_INCOMING" ) =>
           /\ state_ = ExpectedState(last'.op)
           /\ last'.op \in DataOps \cup {"on_outgoing_data_connecting"}
           /\ (last'.op = "on_outgoing_data_connecting" => Len(Granted) = 0)
           /\ (last'.op \in DataOps => Len(Granted) = 1) ]_vars

\* on_outgoing_data relayed, in one go, bytes of more than one read: some
\* had arrived with the end of the handshake and waited in the buffer
C17_Witness ==
  /\ impl = "Client"
  /\ state_ = "kESTABLISHED"
  /\ last.op = "on_outgoing_data"
  /\ Len(RcvdData) = 1
  /\ RcvdData[1].len \notin ChunkSizes

\* C18: kdf_obfs2 keys both ciphers from S = INIT_SEED followed by RESP_SEED:
\* the initiator cipher gets key = first 16 and IV = last 16 bytes of
\* MAC("Initiator obfuscated data", S), the responder cipher the same split
\* of MAC("Responder obfuscated data", S); mac(K, M) hashes exactly K, M, K
\* and returns false for an empty K, an empty M or a digest buffer whose
\* size is not 32.
KdfS == kdf_out.init_seed_ \o kdf_out.resp_seed_
KdfSecret(label) == Sha256_digest(label \o KdfS \o label)
KeyedFrom(d) == [key |-> KeyOf(d), iv |-> IvOf(d), off |-> 0]
MacInputOk ==
  /\ Len(mac_in.key) > 0
  /\ Len(mac_in.buf) > 0
  /\ mac_in.digest_size = 32
C18_KdfKeysBothCiphers ==
  /\ kdf_pc \in {"mac_done", "kdf_done"} =>
       /\ mac_out.ok <=> MacInputOk
       /\ mac_out.ok =>
            mac_out.digest = Sha256_digest(mac_in.key \o mac_in.buf \o mac_in.key)
  /\ kdf_pc = "kdf_done" /\ kdf_out.ret = "true" =>
       /\ kdf_out.initiator_aes_ = KeyedFrom(KdfSecret(init_data))
       /\ kdf_out.responder_aes_ = KeyedFrom(KdfSecret(resp_data))
C18_Witness ==
  /\ kdf_pc = "kdf_done"
  /\ kdf_out.ret = "true"
  /\ kdf_out.init_seed_ # kdf_out.resp_seed_
  /\ mac_in.key = init_data
  /\ mac_in.buf = KdfS
  /\ mac_out.ok

\* C19: for each supported transport the host requested, init_pt issues
\* exactly one report to the host, a success report for the bound SOCKS5
\* listener or a method error, never both and never neither; for a transport
\* that was not requested it issues no report and binds no listener.
ReportsAbout(m, kinds) ==
  {i \in 1 .. Len(host_log) :
     /\ Len(host_log[i]) >= 2
     /\ host_log[i][1] \in kinds
     /\ host_log[i][2] = m}
SuccessReports(m) == ReportsAbout(m, {"cmethod_report"})
ErrorReports(m) == ReportsAbout(m, {"method_error"})
\* the init_pt call for m has returned
InitPtReturned(m) ==
  CASE m = kObfs3MethodName -> m_pc \notin {"idle", "init_obfs3"}
    [] m = kObfs2MethodName -> m_pc \notin {"idle", "init_obfs3", "init_obfs2"}
    [] OTHER -> m_pc \notin {"idle", "init_obfs3", "init_obfs2",
                             "init_scramblesuit"}
HasListener(m) == \E i \in 1 .. Len(listeners) : listeners[i] = m
C19_OneReportPerRequestedMethod ==
  \A m \in Methods :
    /\ Cardinality(SuccessReports(m)) + Cardinality(ErrorReports(m)) =
         IF m \in requested /\ InitPtReturned(m) THEN 1 ELSE 0
    /\ SuccessReports(m) # {} <=> HasListener(m)
    /\ m_pc \in {"init_obfs3", "init_obfs2", "init_scramblesuit", "methods_done"}
         => (srv[m].accepting <=> HasListener(m))
    /\ m \notin requested => ~HasListener(m) /\ ~srv[m].accepting
C19_Witness ==
  /\ m_pc = "methods_done"
  /\ SuccessReports(kObfs3MethodName) # {}
  /\ ErrorReports(kObfs2MethodName) # {}
  /\ kScrambleSuitMethodName \notin requested

\* C20 as stated: the assertion at the end of gen_padlen holds on every
\* return, the pad length that left the rejection loop being strictly less
\* than kMaxPadding for every 32-bit draw.
C20_AsStated ==
  /\ gp_pc # "aborted"
  /\ gp_pc \in {"assert", "returned"} => U32Lt(gp_ret, kMaxPadding)

\* the draw 0x00002000: the mask keeps bit 13, 8192 > 8192 is false, the
\* loop ends and SL_ASSERT(8192 < 8192) stops the process
C20_Witness ==
  /\ gp_pc = "aborted"
  /\ gp_rnd = U32(0, kMaxPadding)
  /\ gp_ret = U32(0, kMaxPadding)

\* C21: a session whose responder header was refused for its MAGIC or its
\* PADLEN is never kESTABLISHED and never granted afterwards: the refusal
\* takes it out of kCONNECTING, so the handshake callback does not run for
\* the bytes that follow.  Run again all the same, Obfs2Client finds the
\* refused bytes still at the head of the buffer and refuses them again.
HeaderRejected == last.why \in {"magic", "padlen"}
\* 24 further bytes of the peer that are a valid seed and header
FurtherHandshake ==
  [seed |-> <<"RESP_SEED_2">>, magic |-> U32OfNat(kMagicValue), padlen |-> 0]
\* on_outgoing_data_connecting run once more with 24 further bytes buffered,
\* in a build whose assertion lets it run
RunAgain ==
  IF impl = "Client"
  THEN Client_on_outgoing_data_connecting([Sess EXCEPT !.out_rd = 0], 0,
                                          FurtherHandshake, seed_hdr_sz)
  ELSE Obfs2Client_on_outgoing_data_connecting(Sess, 0, peer,
                                               out_rcvd + seed_hdr_sz)
NotGrantedBy(r) ==
  /\ r.state_ # "kESTABLISHED"
  /\ Len(SelectSeq(r.inc_wr, IsGranted)) = 0
SingleRead ==
  LET s0 == [Sess EXCEPT !.out_rd = 0, !.received_seed_hdr_ = FALSE,
                         !.resp_pad_len_ = 0, !.resp_seed_ = ZeroSeed,
                         !.responder_aes_ = Unkeyed, !.inc_wr = <<>>,
                         !.state_ = "kCONNECTING"]
  IN  IF impl = "Client"
      THEN Client_on_outgoing_data_connecting(s0, 0, peer, StreamLen(peer))
      ELSE Obfs2Client_on_outgoing_data_connecting(s0, 0, peer, StreamLen(peer))
HandshakeReads == connected /\ proc = "running" /\ Len(Refused) = 0
FragSafe ==
  HandshakeReads =>
    /\ out_rd <= out_rcvd
    /\ out_rcvd < StreamLen(peer) =>
         /\ state_ = "kCONNECTING"
         /\ Len(Granted) = 0
    /\ out_rcvd = StreamLen(peer) =>
         /\ Len(Granted) = 1
         /\ out_rd = StreamLen(peer)
         /\ state_ = SingleRead.state_
         /\ out_rd = SingleRead.out_rd
         /\ resp_seed_ = SingleRead.resp_seed_
         /\ initiator_aes_ = SingleRead.initiator_aes_
         /\ responder_aes_ = SingleRead.responder_aes_
         /\ received_seed_hdr_ = SingleRead.received_seed_hdr_
         /\ resp_pad_len_ = SingleRead.resp_pad_len_
         /\ inc_wr = SingleRead.inc_wr
C22_FragmentationIndependent ==
  /\ []FragSafe
  /\ (HandshakeReads /\ state_ = "kCONNECTING") ~> (Len(Granted) = 1)

\* the stream with 3 bytes of padding, delivered one byte per read
C22_Witness ==
  /\ impl = "Client"
  /\ peer.padlen = 3
  /\ nevents = StreamLen(peer)
  /\ out_rd = StreamLen(peer)
  /\ Len(Granted) = 1
  /\ initiator_aes_ = SingleRead.initiator_aes_

\* C23: payload of the bridge that arrives in the same read as the last
\* handshake bytes is neither lost nor deciphered at the wrong place:
\* on_outgoing_data_connecting leaves every byte after the 24 + PADLEN
\* handshake bytes in outgoing_'s input buffer and responder_aes_ at the
\* start of the session keystream, and the first on_outgoing_data deciphers
\* those bytes from that position, ahead of the bytes that came later.
\* bytes of the peer buffered on outgoing_ and not yet consumed
Buffered == out_rcvd - out_rd
GrantedNoPayloadYet ==
  /\ state_ = "kESTABLISHED"
  /\ Len(Granted) = 1
  /\ Len(RcvdData) = 0
FirstOutgoingData ==
  /\ GrantedNoPayloadYet
  /\ last'.op = "on_outgoing_data"
  /\ last'.why = ""
C23_EarlyPayloadKept ==
  /\ [](GrantedNoPayloadYet =>
          /\ out_rd = RespPayloadStart
          /\ Buffered >= 0
          /\ responder_aes_ = RespDataCipher)
  /\ [][FirstOutgoingData =>
          /\ Len(RcvdData') = 1
          /\ RcvdData'[1].val = <<RespPayloadStart, out_rcvd' - RespPayloadStart>>
          /\ RcvdData'[1].len = Buffered + (out_rcvd' - out_rcvd)
          /\ RcvdData'[1].enc = RespDataCipher
          /\ AesCtr_clear(RespDataCipher, RcvdData'[1])
          /\ out_rd' = out_rcvd'
          /\ responder_aes_' = AesCtr_process(RespDataCipher, RcvdData'[1].len)]_vars

\* PADLEN 1: the read that ended the handshake brought 8191 bytes of
\* payload with it, the next read one more, all relayed in one piece
C23_Witness ==
  /\ impl = "Client"
  /\ peer.padlen = 1
  /\ nevents = 3
  /\ out_rcvd = seed_hdr_sz + kMaxPadding + 1
  /\ Len(RcvdData) = 1
  /\ RcvdData[1].len = kMaxPadding
  /\ RcvdData[1].enc = RespDataCipher

\* C24: with received_seed_hdr_ set, 0 <= resp_pad_len_ <= kMaxPadding;
\* from then on resp_pad_len_ never grows, each padding step takes
\* min(resp_pad_len_, buffered length) off it and off the buffer, so it
\* never underflows, and received_seed_hdr_ never returns to false: the
\* seed and header are parsed and the session keys derived at most once.
\* what a padding step drains with `pad` bytes to go and `len` buffered
TakenOff(pad, len) == IF len < pad THEN len ELSE pad
PaddingStep ==
  /\ received_seed_hdr_
  /\ last'.op = "on_outgoing_data_connecting"
  /\ out_rcvd' # out_rcvd
  /\ proc' = "running"
C24_PadLenBounded ==
  /\ [](received_seed_hdr_ => resp_pad_len_ \in 0 .. kMaxPadding)
  /\ [][received_seed_hdr_ =>
          /\ received_seed_hdr_'
          /\ resp_pad_len_' <= resp_pad_len_
          /\ resp_seed_' = resp_seed_
          /\ initiator_aes_'.key = initiator_aes_.key
          /\ initiator_aes_'.iv = initiator_aes_.iv
          /\ responder_aes_'.key = responder_aes_.key
          /\ responder_aes_'.iv = responder_aes_.iv]_vars
  /\ [][PaddingStep =>
          /\ resp_pad_len_' =
               resp_pad_len_ - TakenOff(resp_pad_len_, out_rcvd' - out_rd)
          /\ out_rd' = out_rd + TakenOff(resp_pad_len_, out_rcvd' - out_rd)]_vars
  /\ [][(~received_seed_hdr_ /\ received_seed_hdr_') =>
          /\ peer.padlen <= kMaxPadding
          /\ resp_pad_len_' =
               peer.padlen - TakenOff(peer.padlen, out_rcvd' - seed_hdr_sz)]_vars

\* a padding of kMaxPadding bytes partly drained by reads of 1 and 23 bytes
C24_Witness ==
  /\ impl = "Client"
  /\ received_seed_hdr_
  /\ state_ = "kCONNECTING"
  /\ nevents = 3
  /\ resp_pad_len_ = kMaxPadding - seed_hdr_sz

\* C25: on the second SIGINT close_sessions() is called on every server of
\* the listener list, and all of these calls are made before
\* event_base_loopbreak; the loop is never broken while a server has not had
\* close_sessions() called; for a count above two the callback calls
\* event_base_loopbreak and nothing else.
IsLoopbreak(c) == c = <<"event_base_loopbreak">>
\* counts of SIGINT above two
LaterSigints == {3, 4, 255}
C25_SessionsClosedBeforeLoopbreak ==
  /\ nr_sigints >= 2 =>
       /\ Len(sig_log[2]) = Len(listeners) + 1
       /\ \A i \in 1 .. Len(listeners) :
            sig_log[2][i] = <<"close_sessions", listeners[i]>>
       /\ IsLoopbreak(sig_log[2][Len(listeners) + 1])
  /\ \A j \in 1 .. Len(sig_log) :
       (\E c \in 1 .. Len(sig_log[j]) : IsLoopbreak(sig_log[j][c])) => j >= 2
  /\ loop = "exited" =>
       \A i \in 1 .. Len(listeners) :
         /\ srv[listeners[i]].n_close_sessions >= 1
         /\ srv[listeners[i]].sessions = {}
  /\ \A n \in LaterSigints : sigint_cb(n, listeners) = LoopbreakCall

\* the second SIGINT served with three servers up: three close_sessions()
\* calls, then the loop break
C25_Witness ==
  /\ nr_sigints = 2
  /\ Len(listeners) = 3
  /\ Len(sig_log[2]) = 4
  /\ IsLoopbreak(sig_log[2][4])
  /\ loop = "exited"
  /\ \A m \in Methods : srv[m].n_close_sessions = 1

\* C26: after any sequence of successful and failed init_pt calls factories
\* and listeners have the same length, so the assertion before the dispatch
\* loop holds: a successful init_pt appends exactly one entry to each list,
\* a failed one (method not requested, event base, bind or addr failure)
\* leaves both lists as they were and keeps no factory or listener it made.
InitPcs == {"init_obfs3", "init_obfs2", "init_scramblesuit"}
\* the transport the init_pt call at m_pc is for
MethodAt(pc) ==
  CASE pc = "init_obfs3" -> kObfs3MethodName
    [] pc = "init_obfs2" -> kObfs2MethodName
    [] OTHER -> kScrambleSuitMethodName
Owned(names) ==
  UNION {{<<"factory", names[i]>>, <<"listener", names[i]>>} :
           i \in 1 .. Len(names)}
InitPtSucceeded ==
  /\ factories' = Append(factories, MethodAt(m_pc))
  /\ listeners' = Append(listeners, MethodAt(m_pc))
  /\ heap' = heap \cup {<<"factory", MethodAt(m_pc)>>,
                        <<"listener", MethodAt(m_pc)>>}
  /\ host_log' = Append(host_log, <<"cmethod_report", MethodAt(m_pc)>>)
  /\ dispatch_loop'
InitPtFailed ==
  /\ UNCHANGED <<factories, listeners, heap, srv, dispatch_loop>>
  /\ \/ /\ MethodAt(m_pc) \notin requested
        /\ host_log' = host_log
     \/ /\ MethodAt(m_pc) \in requested
        /\ Len(host_log') = Len(host_log) + 1
        /\ host_log'[Len(host_log')][1] = "method_error"
        /\ host_log'[Len(host_log')][2] = MethodAt(m_pc)
C26_ListsSameLength ==
  /\ [](/\ Len(factories) = Len(listeners)
        /\ factories = listeners
        /\ m_pc # "aborted"
        /\ m_pc \in InitPcs \cup {"methods_done", "assert", "dispatch"} =>
             heap = Owned(listeners)
        /\ dispatch_loop <=> Len(listeners) > 0)
  /\ [][(m_pc \in InitPcs) => (InitPtSucceeded \/ InitPtFailed)]_vars

\* the assertion reached with two entries in each list and the middle
\* init_pt failed at Socks5Server::addr()
C26_Witness ==
  /\ m_pc = "assert"
  /\ listeners = <<kObfs3MethodName, kScrambleSuitMethodName>>
  /\ factories = listeners
  /\ \E i \in ErrorReports(kObfs2MethodName) : host_log[i][3] = "Socks5::addr()"

\* C27: transport initialisation is independent per method: all three
\* init_pt calls are made whatever the earlier ones returned; the event
\* loop is dispatched exactly when at least one of them succeeded, and
\* otherwise main returns 0 without dispatching and without the SIGINT
\* handler; allium_ptcfg_methods_done is called exactly once, after every
\* method report and before the configuration is freed.
IsMethodReport(e) == e[1] \in {"cmethod_report", "method_error"}
LogIndexes(e) == {i \in 1 .. Len(host_log) : host_log[i] = e}
MethodReportIndexes == {i \in 1 .. Len(host_log) : IsMethodReport(host_log[i])}
SomeInitPtSucceeded == \E m \in Methods : SuccessReports(m) # {}
C27_InitPerMethodThenDispatch ==
  /\ m_pc \notin InitPcs =>
       \A m \in requested : SuccessReports(m) \cup ErrorReports(m) # {}
  /\ dispatch_loop <=> SomeInitPtSucceeded
  /\ m_pc = "dispatch" => (dispatch_loop /\ sigint_installed /\ loop # "idle")
  /\ (sigint_installed \/ loop # "idle" \/ nr_sigints > 0) => dispatch_loop
  /\ m_pc = "exit" =>
       /\ exit_code = 0
       /\ dispatch_loop => (loop = "exited" /\ sigint_installed)
       /\ ~dispatch_loop => (loop = "idle" /\ ~sigint_installed)
  /\ Cardinality(LogIndexes(<<"methods_done">>)) =
       IF m_pc \in InitPcs \cup {"methods_done"} THEN 0 ELSE 1
  /\ Cardinality(LogIndexes(<<"free">>)) =
       IF m_pc \in InitPcs \cup {"methods_done"} THEN 0 ELSE 1
  /\ \A i \in LogIndexes(<<"methods_done">>) :
       /\ \A j \in MethodReportIndexes : j < i
       /\ \A j \in LogIndexes(<<"free">>) : i < j

\* the loop dispatched with obfs3 up, obfs2 failed and scramblesuit up: the
\* later calls were made after a success and after a failure
C27_Witness ==
  /\ m_pc = "dispatch"
  /\ loop = "running"
  /\ SuccessReports(kObfs3MethodName) # {}
  /\ ErrorReports(kObfs2MethodName) # {}
  /\ SuccessReports(kScrambleSuitMethodName) # {}
  /\ LogIndexes(<<"methods_done">>) = {4}

(***************************************************************************)
(* The specifications.  Each starts the part it runs in its initial state  *)
(* and parks the variables of the other two.                               *)
(***************************************************************************)
\* one session, constructed and with its outgoing connect under way
Init ==
  /\ impl \in Impls
  /\ proc = "running"
  /\ state_ = "kCONNECTING"
  /\ connected = FALSE
  /\ init_seed_ = ZeroSeed
  /\ resp_seed_ = ZeroSeed
  /\ initiator_aes_ = Unkeyed
  /\ responder_aes_ = Unkeyed
  /\ received_seed_hdr_ = FALSE
  /\ resp_pad_len_ = 0
  /\ out_wr = <<>>
  /\ inc_wr = <<>>
  /\ peer \in Peers
  /\ out_rcvd = 0
  /\ out_rd = 0
  /\ inc_rcvd = 0
  /\ inc_rd = 0
  /\ close_calls = 0
  /\ nevents = 0
  /\ last = [op |-> "none", ret |-> "none", why |-> ""]
  \* gen_padlen and main are not running
  /\ gp_pc = "idle"
  /\ gp_rnd = U32(0, 0)
  /\ gp_ret = U32(0, 0)
  /\ m_pc = "idle"
  /\ requested = {}
  /\ ev_base = "null"
  /\ host_log = <<>>
  /\ factories = <<>>
  /\ listeners = <<>>
  /\ heap = {}
  /\ dispatch_loop = FALSE
  /\ sigint_installed = FALSE
  /\ nr_sigints = 0
  /\ loop = "idle"
  /\ srv = [m \in Methods |-> NoServer]
  /\ sig_log = <<>>
  /\ exit_code = "none"
  /\ kdf_pc = "idle"
  /\ mac_in = [key |-> <<>>, buf |-> <<>>, digest_size |-> 0]
  /\ mac_out = [ok |-> FALSE, digest |-> <<>>]
  /\ kdf_out = [init_seed_ |-> ZeroSeed, resp_seed_ |-> ZeroSeed,
                initiator_aes_ |-> Unkeyed, responder_aes_ |-> Unkeyed,
                ret |-> "none"]

\* gen_padlen entered, the generator about to yield any word
InitPad ==
  /\ gp_pc = "loop"
  /\ gp_rnd \in RngWords
  /\ gp_ret = U32(0, 0)
  \* no session, main not running
  /\ impl = "Client"
  /\ proc = "idle"
  /\ state_ = "kINVALID"
  /\ connected = FALSE
  /\ init_seed_ = ZeroSeed
  /\ resp_seed_ = ZeroSeed
  /\ initiator_aes_ = Unkeyed
  /\ responder_aes_ = Unkeyed
  /\ received_seed_hdr_ = FALSE
  /\ resp_pad_len_ = 0
  /\ out_wr = <<>>
  /\ inc_wr = <<>>
  /\ peer = [seed |-> <<"RESP_SEED">>, magic |-> U32OfNat(kMagicValue), padlen |-> 0]
  /\ out_rcvd = 0
  /\ out_rd = 0
  /\ inc_rcvd = 0
  /\ inc_rd = 0
  /\ close_calls = 0
  /\ nevents = 0
  /\ last = [op |-> "none", ret |-> "none", why |-> ""]
  /\ m_pc = "idle"
  /\ requested = {}
  /\ ev_base = "null"
  /\ host_log = <<>>
  /\ factories = <<>>
  /\ listeners = <<>>
  /\ heap = {}
  /\ dispatch_loop = FALSE
  /\ sigint_installed = FALSE
  /\ nr_sigints = 0
  /\ loop = "idle"
  /\ srv = [m \in Methods |-> NoServer]
  /\ sig_log = <<>>
  /\ exit_code = "none"
  /\ kdf_pc = "idle"
  /\ mac_in = [key |-> <<>>, buf |-> <<>>, digest_size |-> 0]
  /\ mac_out = [ok |-> FALSE, digest |-> <<>>]
  /\ kdf_out = [init_seed_ |-> ZeroSeed, resp_seed_ |-> ZeroSeed,
                initiator_aes_ |-> Unkeyed, responder_aes_ |-> Unkeyed,
                ret |-> "none"]

\* mac and kdf_obfs2 are about to be called with the arguments drawn
InitKdf ==
  /\ gp_pc = "idle"
  /\ gp_rnd = U32(0, 0)
  /\ gp_ret = U32(0, 0)
  \* no session, main and gen_padlen not running
  /\ impl = "Client"
  /\ proc = "idle"
  /\ state_ = "kINVALID"
  /\ connected = FALSE
  /\ init_seed_ = ZeroSeed
  /\ resp_seed_ = ZeroSeed
  /\ initiator_aes_ = Unkeyed
  /\ responder_aes_ = Unkeyed
  /\ received_seed_hdr_ = FALSE
  /\ resp_pad_len_ = 0
  /\ out_wr = <<>>
  /\ inc_wr = <<>>
  /\ peer = [seed |-> <<"RESP_SEED">>, magic |-> U32OfNat(kMagicValue), padlen |-> 0]
  /\ out_rcvd = 0
  /\ out_rd = 0
  /\ inc_rcvd = 0
  /\ inc_rd = 0
  /\ close_calls = 0
  /\ nevents = 0
  /\ last = [op |-> "none", ret |-> "none", why |-> ""]
  /\ m_pc = "idle"
  /\ requested = {}
  /\ ev_base = "null"
  /\ host_log = <<>>
  /\ factories = <<>>
  /\ listeners = <<>>
  /\ heap = {}
  /\ dispatch_loop = FALSE
  /\ sigint_installed = FALSE
  /\ nr_sigints = 0
  /\ loop = "idle"
  /\ srv = [m \in Methods |-> NoServer]
  /\ sig_log = <<>>
  /\ exit_code = "none"
  /\ kdf_pc = "ready"
  /\ mac_in \in [key : MacKeys, buf : MacBufs, digest_size : DigestSizes]
  /\ mac_out = [ok |-> FALSE, digest |-> <<>>]
  /\ kdf_out \in [init_seed_ : KdfSeeds, resp_seed_ : KdfSeeds,
                  initiator_aes_ : {Unkeyed}, responder_aes_ : {Unkeyed},
                  ret : {"none"}]

\* a session about to connect to a peer whose handshake is valid
InitFrag ==
  /\ impl \in Impls
  /\ proc = "running"
  /\ state_ = "kCONNECTING"
  /\ connected = FALSE
  /\ init_seed_ = ZeroSeed
  /\ resp_seed_ = ZeroSeed
  /\ initiator_aes_ = Unkeyed
  /\ responder_aes_ = Unkeyed
  /\ received_seed_hdr_ = FALSE
  /\ resp_pad_len_ = 0
  /\ out_wr = <<>>
  /\ inc_wr = <<>>
  /\ peer \in FragPeers
  /\ out_rcvd = 0
  /\ out_rd = 0
  /\ inc_rcvd = 0
  /\ inc_rd = 0
  /\ close_calls = 0
  /\ nevents = 0
  /\ last = [op |-> "none", ret |-> "none", why |-> ""]
  \* gen_padlen and main are not running
  /\ gp_pc = "idle"
  /\ gp_rnd = U32(0, 0)
  /\ gp_ret = U32(0, 0)
  /\ m_pc = "idle"
  /\ requested = {}
  /\ ev_base = "null"
  /\ host_log = <<>>
  /\ factories = <<>>
  /\ listeners = <<>>
  /\ heap = {}
  /\ dispatch_loop = FALSE
  /\ sigint_installed = FALSE
  /\ nr_sigints = 0
  /\ loop = "idle"
  /\ srv = [m \in Methods |-> NoServer]
  /\ sig_log = <<>>
  /\ exit_code = "none"
  /\ kdf_pc = "idle"
  /\ mac_in = [key |-> <<>>, buf |-> <<>>, digest_size |-> 0]
  /\ mac_out = [ok |-> FALSE, digest |-> <<>>]
  /\ kdf_out = [init_seed_ |-> ZeroSeed, resp_seed_ |-> ZeroSeed,
                initiator_aes_ |-> Unkeyed, responder_aes_ |-> Unkeyed,
                ret |-> "none"]

\* main() has the PT configuration and is about to call init_pt
InitMain ==
  /\ m_pc = "init_obfs3"
  /\ requested \in SUBSET Methods
  /\ ev_base = "null"
  /\ host_log = <<>>
  /\ factories = <<>>
  /\ listeners = <<>>
  /\ heap = {}
  /\ dispatch_loop = FALSE
  /\ sigint_installed = FALSE
  /\ nr_sigints = 0
  /\ loop = "idle"
  /\ srv = [m \in Methods |-> NoServer]
  /\ sig_log = <<>>
  /\ exit_code = "none"
  \* no session, gen_padlen not running
  /\ impl = "Client"
  /\ proc = "idle"
  /\ state_ = "kINVALID"
  /\ connected = FALSE
  /\ init_seed_ = ZeroSeed
  /\ resp_seed_ = ZeroSeed
  /\ initiator_aes_ = Unkeyed
  /\ responder_aes_ = Unkeyed
  /\ received_seed_hdr_ = FALSE
  /\ resp_pad_len_ = 0
  /\ out_wr = <<>>
  /\ inc_wr = <<>>
  /\ peer = [seed |-> <<"RESP_SEED">>, magic |-> U32OfNat(kMagicValue), padlen |-> 0]
  /\ out_rcvd = 0
  /\ out_rd = 0
  /\ inc_rcvd = 0
  /\ inc_rd = 0
  /\ close_calls = 0
  /\ nevents = 0
  /\ last = [op |-> "none", ret |-> "none", why |-> ""]
  /\ gp_pc = "idle"
  /\ gp_rnd = U32(0, 0)
  /\ gp_ret = U32(0, 0)
  /\ kdf_pc = "idle"
  /\ mac_in = [key |-> <<>>, buf |-> <<>>, digest_size |-> 0]
  /\ mac_out = [ok |-> FALSE, digest |-> <<>>]
  /\ kdf_out = [init_seed_ |-> ZeroSeed, resp_seed_ |-> ZeroSeed,
                initiator_aes_ |-> Unkeyed, responder_aes_ |-> Unkeyed,
                ret |-> "none"]

Next == SessNext
Spec == Init /\ [][Next]_vars
SpecPad == InitPad /\ [][PadNext]_vars
SpecMain == InitMain /\ [][MainNext]_vars
SpecKdf == InitKdf /\ [][KdfNext]_vars
\* the event loop delivers what the peer has sent: while part of the stream
\* is pending, the next read comes
SpecFrag == InitFrag /\ [][FragNext]_vars /\ WF_nevents(ChunkRead)

====
